---- MODULE Spec2Model ----
(***************************************************************************)
(* CerebroOnline: the capture pipeline of src/src/hooks/useCapture.ts.     *)
(* A capture takes a free text, asks the classify-entry function for a     *)
(* classification (managed invocation, then a direct HTTP fallback),       *)
(* normalises the answer and inserts a goal (plus a companion entry) or a  *)
(* regular entry.  Every await of mutationFn is one step of the model.     *)
(***************************************************************************)
EXTENDS Integers, Sequences, FiniteSets, TLC

(***************************************************************************)
(* Strings are sequences of one-character strings so that toLowerCase,     *)
(* includes and startsWith are computed, not assumed.                      *)
(***************************************************************************)
UpperAlpha == <<"A","B","C","D","E","F","G","H","I","J","K","L","M",
                "N","O","P","Q","R","S","T","U","V","W","X","Y","Z">>

LowerAlpha == <<"a","b","c","d","e","f","g","h","i","j","k","l","m",
                "n","o","p","q","r","s","t","u","v","w","x","y","z">>

LowerChar(c) ==
    IF \E i \in 1..Len(UpperAlpha) : UpperAlpha[i] = c
    THEN LowerAlpha[CHOOSE i \in 1..Len(UpperAlpha) : UpperAlpha[i] = c]
    ELSE c

\* String.prototype.toLowerCase
toLowerCase(s) == [i \in 1..Len(s) |-> LowerChar(s[i])]

\* String.prototype.includes
includes(s, kw) ==
    \E i \in 1..(Len(s) - Len(kw) + 1) : SubSeq(s, i, i + Len(kw) - 1) = kw

\* String.prototype.startsWith
startsWith(s, p) == Len(s) >= Len(p) /\ SubSeq(s, 1, Len(p)) = p

\* The string literals of the source.
s_ideas       == <<"i","d","e","a","s">>
s_work        == <<"w","o","r","k">>
s_task        == <<"t","a","s","k">>
s_note        == <<"n","o","t","e">>
s_insight     == <<"i","n","s","i","g","h","t">>
s_bookmark    == <<"b","o","o","k","m","a","r","k">>
s_goal        == <<"g","o","a","l">>
s_low         == <<"l","o","w">>
s_medium      == <<"m","e","d","i","u","m">>
s_high        == <<"h","i","g","h">>
s_urgent      == <<"u","r","g","e","n","t">>
s_urgente     == <<"u","r","g","e","n","t","e">>
s_pra_ontem   == <<"p","r","a"," ","o","n","t","e","m">>
s_pending     == <<"p","e","n","d","i","n","g">>
s_in_progress == <<"i","n","_","p","r","o","g","r","e","s","s">>
s_done        == <<"d","o","n","e">>
s_daily       == <<"d","a","i","l","y">>
s_weekly      == <<"w","e","e","k","l","y">>
s_monthly     == <<"m","o","n","t","h","l","y">>
s_estou_      == <<"e","s","t","o","u"," ">>
s_fazendo     == <<"f","a","z","e","n","d","o">>
s_andamento   == <<"a","n","d","a","m","e","n","t","o">>

(***************************************************************************)
(* JSON values as the classifier may send them.  A field may be missing    *)
(* (undefined), null, a string or a number.                                *)
(***************************************************************************)
Undef  == [k |-> "undef", s |-> <<>>, n |-> 0]
Null   == [k |-> "null",  s |-> <<>>, n |-> 0]
Str(x) == [k |-> "str",   s |-> x,    n |-> 0]
Num(x) == [k |-> "num",   s |-> <<>>, n |-> x]

\* JavaScript truthiness: undefined, null, '' and 0 are falsy.
Truthy(v) == \/ v.k = "str" /\ v.s # <<>>
             \/ v.k = "num" /\ v.n # 0

\* a || b
Or(a, b) == IF Truthy(a) THEN a ELSE b

\* x.toLowerCase() is a TypeError unless x is a string.
CanLower(v) == v.k = "str"

\* Mutant: the value is used as it was spelled.
LowerAsSpelled(v) == Str(v.s)

Lower(v) == Str(toLowerCase(v.s))

\* x?.toLowerCase(): undefined for undefined and null.
Nullish(v) == v.k \in {"undef", "null"}

(***************************************************************************)
(* Inputs.  Capture texts with and without the keywords of the source, in  *)
(* several spellings, and the values a classifier may put in each field.   *)
(***************************************************************************)
t_plain      == <<"c","o","m","p","r","a","r"," ","l","e","i","t","e">>  \* "comprar leite"
t_urgente    == <<"l","e","i","t","e"," ","U","R","G","E","N","T","E">>  \* "leite URGENTE"
t_urgent     == <<"U","r","g","e","n","t"," ","f","i","x">>  \* "Urgent fix"
t_pra_ontem  == <<"P","r","a"," ","O","n","t","e","m">>  \* "Pra Ontem"
t_estou      == <<"E","s","t","o","u"," ","l","e","n","d","o">>  \* "Estou lendo"
t_estouro    == <<"e","s","t","o","u","r","o">>  \* "estouro"
t_fazendo    == <<"t","o"," ","F","a","z","e","n","d","o">>  \* "to Fazendo"
t_andamento  == <<"e","m"," ","a","n","d","a","m","e","n","t","o">>  \* "em andamento"
t_both       == <<"f","a","z","e","n","d","o"," ","u","r","g","e","n","t","e">>  \* "fazendo urgente"

Texts == {t_plain, t_urgente, t_urgent, t_pra_ontem, t_estou, t_estouro,
          t_fazendo, t_andamento, t_both}

v_BOOKMARK   == <<"B","O","O","K","M","A","R","K">>
v_Insight    == <<"I","n","s","i","g","h","t">>
v_event      == <<"e","v","e","n","t">>
v_Goal       == <<"G","o","a","l">>
v_IN_PROGRESS == <<"I","N","_","P","R","O","G","R","E","S","S">>
v_archived   == <<"a","r","c","h","i","v","e","d">>
v_HIGH       == <<"H","I","G","H">>
v_critical   == <<"c","r","i","t","i","c","a","l">>
v_DAILY      == <<"D","A","I","L","Y">>
v_yearly     == <<"y","e","a","r","l","y">>
v_resumo     == <<"r","e","s","u","m","o">>
v_nowhere    == <<"n","o","w","h","e","r","e">>

\* Largest metadata.target the classifier sends in the model.
MaxTarget == 1

\* The metadata bag.  kind "undef": no metadata key; "prim": a JSON
\* primitive (a non-empty string) where an object was expected; "obj": an
\* object with the keys below (Undef = key missing).
Meta(kind, summary, priority, period_type, tgt) ==
    [kind |-> kind, summary |-> summary, priority |-> priority,
     period_type |-> period_type, target |-> tgt, is_goal_trigger |-> FALSE]

NoMeta   == Meta("undef", Undef, Undef, Undef, Undef)
PrimMeta == Meta("prim", Undef, Undef, Undef, Undef)

\* ClassificationResult (interface) as received; kind "null" is data = null.
Classification(slug, type, status, meta) ==
    [kind |-> "obj", category_slug |-> slug, entry_type |-> type,
     status |-> status, metadata |-> meta]

NullClassification ==
    [kind |-> "null", category_slug |-> Undef, entry_type |-> Undef,
     status |-> Undef, metadata |-> NoMeta]

SlugValues     == {Undef, Str(s_work), Str(v_nowhere)}
TypeValues     == {Undef, Str(s_task), Str(v_BOOKMARK), Str(v_Insight),
                   Str(v_event), Num(42)}
GoalTypeValues == {Str(s_goal), Str(v_Goal)}
StatusValues   == {Undef, Str(s_done), Str(v_IN_PROGRESS), Str(v_archived), Num(7)}
PriorityValues == {Undef, Null, Str(s_low), Str(v_HIGH), Str(v_critical), Num(3)}
PeriodValues   == {Undef, Str(s_monthly), Str(v_DAILY), Str(v_yearly), Num(5)}
TargetValues   == {Undef} \cup {Num(n) : n \in 0..MaxTarget}

EntryMetas ==
    {NoMeta, PrimMeta} \cup {Meta("obj", Undef, p, Undef, Undef) : p \in PriorityValues}

GoalMetas ==
    {NoMeta, PrimMeta} \cup
    {Meta("obj", s, p, pt, t) : s \in {Undef, Str(v_resumo)},
                                p \in {Undef, Str(s_low), Num(3)},
                                pt \in PeriodValues, t \in TargetValues}

\* What a transport that succeeds may deliver as data.
Replies ==
    {NullClassification} \cup
    {Classification(sl, ty, st, m) :
        sl \in SlugValues, ty \in TypeValues, st \in StatusValues, m \in EntryMetas} \cup
    {Classification(sl, ty, Undef, m) :
        sl \in {Undef, Str(s_work)}, ty \in GoalTypeValues, m \in GoalMetas}

\* The categories table (external data): id, slug, name.
CategoriesTable ==
    {[id |-> 1, slug |-> s_ideas, name |-> "Ideias"],
     [id |-> 2, slug |-> s_work,  name |-> "Trabalho"]}

(***************************************************************************)
(* Calendar dates, for new Date(), startOfWeek, startOfMonth and format of *)
(* date-fns.  A date is [y, m, d]; the time of day is dropped by format    *)
(* 'yyyy-MM-dd' and every step works in local time.                        *)
(***************************************************************************)
Date(y, m, d) == [y |-> y, m |-> m, d |-> d]

NoDate == Date(0, 0, 0)

IsLeap(y) == (y % 4 = 0 /\ y % 100 # 0) \/ y % 400 = 0

DaysInMonth(y, m) ==
    IF m = 2 THEN (IF IsLeap(y) THEN 29 ELSE 28)
    ELSE IF m \in {4, 6, 9, 11} THEN 30 ELSE 31

DaysInYear(y) == IF IsLeap(y) THEN 366 ELSE 365

\* The calendar of the model starts on Sunday 1 January 2023 and ends with
\* the year MaxYear.
Epoch == Date(2023, 1, 1)

MaxYear == 2024

RECURSIVE DaysBeforeYear(_)
DaysBeforeYear(y) ==
    IF y = Epoch.y THEN 0
    ELSE IF y > Epoch.y THEN DaysBeforeYear(y - 1) + DaysInYear(y - 1)
    ELSE DaysBeforeYear(y + 1) - DaysInYear(y)

RECURSIVE DaysBeforeMonth(_, _)
DaysBeforeMonth(y, m) ==
    IF m <= 1 THEN 0 ELSE DaysBeforeMonth(y, m - 1) + DaysInMonth(y, m - 1)

\* Days since Epoch.
DayNumber(dt) == DaysBeforeYear(dt.y) + DaysBeforeMonth(dt.y, dt.m) + dt.d - 1

\* Date.prototype.getDay: 0 is Sunday.
getDay(dt) == DayNumber(dt) % 7

\* Date.prototype.setDate: a day below 1 counts back into the months before.
RECURSIVE setDate(_, _)
setDate(dt, day) ==
    IF day >= 1 THEN Date(dt.y, dt.m, day)
    ELSE IF dt.m = 1
         THEN setDate(Date(dt.y - 1, 12, 1), day + 31)
         ELSE setDate(Date(dt.y, dt.m - 1, 1), day + DaysInMonth(dt.y, dt.m - 1))

\* startOfWeek(date, { weekStartsOn })
startOfWeek(dt, weekStartsOn) ==
    LET day  == getDay(dt)
        diff == (IF day < weekStartsOn THEN 7 ELSE 0) + day - weekStartsOn
    IN setDate(dt, dt.d - diff)

\* startOfMonth(date)
startOfMonth(dt) == setDate(dt, 1)

Digit(n) == <<"0", "1", "2", "3", "4", "5", "6", "7", "8", "9">>[n + 1]

\* The tokens yyyy, MM and dd: zero-padded decimal.
Padded(n, width) ==
    [i \in 1..width |-> Digit((n \div (10 ^ (width - i))) % 10)]

\* format(date, 'yyyy-MM-dd')
format(dt) ==
    Padded(dt.y, 4) \o <<"-">> \o Padded(dt.m, 2) \o <<"-">> \o Padded(dt.d, 2)

\* Mutant: the week starts on Sunday, the default of date-fns.
PeriodStartSundayWeek(n, pt) ==
    IF pt = Str(s_weekly) THEN startOfWeek(n, 0)
    ELSE IF pt = Str(s_monthly) THEN startOfMonth(n)
    ELSE n

\* lines 102-112
PeriodStart(n, pt) ==
    IF pt = Str(s_weekly) THEN startOfWeek(n, 1)
    ELSE IF pt = Str(s_monthly) THEN startOfMonth(n)
    ELSE n

\* Every date of the calendar of the model.
AllDates ==
    {dt \in [y : Epoch.y..MaxYear, m : 1..12, d : 1..31] :
        dt.d <= DaysInMonth(dt.y, dt.m)}

\* The dates a capture of the pipeline runs on: a Friday whose week starts
\* in a leap February, and a Sunday.
Clock == {Date(2024, 3, 1), Date(2024, 6, 9)}

\* The locals of a capture that has not started.
NoLocals == [pc |-> "none"]

(***************************************************************************)
(* State.                                                                  *)
(***************************************************************************)
VARIABLES
    user,            \* useAuth().user is set
    anonKey,         \* import.meta.env.VITE_SUPABASE_ANON_KEY is set
    pc,              \* where mutationFn is suspended
    text,            \* the argument of mutationFn
    classification,  \* let classification
    primary,         \* how supabase.functions.invoke ended
    fallback,        \* how the raw fetch fallback ended
    targetSlug,      \* const targetSlug
    entryType,       \* const entryType
    metadata,        \* const metadata
    periodType,      \* let periodType
    categories,      \* const { data: categories }
    request,         \* the database request in flight
    entries,         \* rows of table entries, in insertion order
    goals,           \* rows of table goals, in insertion order
    calls,           \* number of calls issued, per collaborator
    toasts,          \* toasts shown
    invalidated,     \* query keys invalidated
    thrown,          \* the error mutationFn threw
    result,          \* data.type of the value mutationFn returned
    received,        \* the body the transport delivered, as it was sent
    now,             \* const now = new Date(), as a calendar date
    self,            \* the capture that is running
    parked,          \* the locals of the capture that is suspended
    response,        \* classify-entry: the Response the handler returned
    data,            \* KanbanView: the entries the query holds
    draggedEntry,    \* KanbanView: const [draggedEntry, setDraggedEntry]
    groupBy,         \* KanbanView: const [groupBy, setGroupBy]
    mutations,       \* KanbanView: the updates issued and not yet settled
    updates,         \* KanbanView: the number of updates issued so far
    event,           \* KanbanView: the handler that ran last, with its argument
    title,           \* AddGoalDialog: const [title, setTitle]
    emoji,           \* AddGoalDialog: const [emoji, setEmoji]
    target,          \* AddGoalDialog: const [target, setTarget]
    unit,            \* AddGoalDialog: const [unit, setUnit]
    editingGoal,     \* AddGoalDialog: the editingGoal prop
    saved,           \* AddGoalDialog: the goals handed to onSave, in order
    closed           \* AddGoalDialog: the number of calls of onClose

vars == <<user, anonKey, pc, text, classification, primary, fallback,
          targetSlug, entryType, metadata, periodType, categories, request,
          entries, goals, calls, toasts, invalidated, thrown, result,
          received, now, self, parked, response, data, draggedEntry, groupBy,
          mutations, updates, event, title, emoji, target, unit, editingGoal, saved,
          closed>>

kanbanVars == <<data, draggedEntry, groupBy, mutations, updates, event>>

dialogVars == <<title, emoji, target, unit, editingGoal, saved, closed>>

NoResponse == [for |-> "none"]

NoEntry == [id |-> 0]

\* The handler that ran last, when it is one that issues or settles an
\* update or ends a drag.
NoEvent == [type |-> "none"]

NoGoal == [id |-> 0]

\* useState('🎯'), useState(4), useState('dias')
DefaultEmoji == "target"

DefaultTarget == 4

DefaultUnit == "dias"

\* The endpoint has served nothing, the Kanban and the goal dialog are as
\* mounted.
ViewsInit ==
    /\ response = NoResponse
    /\ data = <<>>
    /\ draggedEntry = NoEntry
    /\ groupBy = "status"
    /\ mutations = <<>>
    /\ updates = 0
    /\ event = NoEvent
    /\ title = <<>>
    /\ emoji = DefaultEmoji
    /\ target = DefaultTarget
    /\ unit = DefaultUnit
    /\ editingGoal = NoGoal
    /\ saved = <<>>
    /\ closed = 0

NoRequest == [table |-> "none"]

NoCategory == [id |-> 0, name |-> "none"]

Init ==
    /\ user \in BOOLEAN
    /\ anonKey \in BOOLEAN
    /\ pc = "idle"
    /\ text = <<>>
    /\ classification = NullClassification
    /\ primary = "none"
    /\ fallback = "none"
    /\ targetSlug = Undef
    /\ entryType = Undef
    /\ metadata = NoMeta
    /\ periodType = Undef
    /\ categories = NoCategory
    /\ request = NoRequest
    /\ entries = <<>>
    /\ goals = <<>>
    /\ calls = [invoke |-> 0, fetch |-> 0, json |-> 0, select |-> 0,
                insertGoals |-> 0, insertEntries |-> 0]
    /\ toasts = {}
    /\ invalidated = {}
    /\ thrown = "none"
    /\ result = "none"
    /\ received = NullClassification
    /\ now = NoDate
    /\ self = 1
    /\ parked = NoLocals
    /\ ViewsInit

(***************************************************************************)
(* The normaliser: lines 75-99 and 162-189 of useCapture.ts as operators.  *)
(***************************************************************************)
lowerText(t) == toLowerCase(t)

\* lowerText.includes('urgente') || .includes('urgent') || .includes('pra ontem')
UrgentKeyword(t) ==
    \/ includes(lowerText(t), s_urgente)
    \/ includes(lowerText(t), s_urgent)
    \/ includes(lowerText(t), s_pra_ontem)

\* lowerText.startsWith('estou ') || .includes('fazendo') || .includes('andamento')
ProgressKeyword(t) ==
    \/ startsWith(lowerText(t), s_estou_)
    \/ includes(lowerText(t), s_fazendo)
    \/ includes(lowerText(t), s_andamento)

\* classification?.category_slug || 'ideas'
TargetSlug(cls) == Or(cls.category_slug, Str(s_ideas))

\* Mutant: the default entry type is 'task'.
RawEntryTypeTask(cls) == Or(cls.entry_type, Str(s_task))

\* classification?.entry_type || 'note', before .toLowerCase()
RawEntryType(cls) == Or(cls.entry_type, Str(s_note))

\* { summary: text, priority: 'medium' }
DefaultMetadata(t) == Meta("obj", Str(t), Str(s_medium), Undef, Undef)

\* Mutant: the default metadata is used for a null classification only.
MetadataOfNullOnly(cls, t) ==
    IF cls.kind # "null" THEN cls.metadata ELSE DefaultMetadata(t)

\* classification?.metadata || { summary: text, priority: 'medium' }
MetadataOf(cls, t) ==
    IF cls.metadata.kind # "undef" THEN cls.metadata ELSE DefaultMetadata(t)

\* metadata.priority = 'urgent' on a primitive is a TypeError (module code
\* is strict).
OverrideThrows(md, t) == UrgentKeyword(t) /\ md.kind = "prim"

\* The priority override of lines 83-87.
PriorityOverride(cls, md, t) ==
    IF UrgentKeyword(t)
    THEN [md EXCEPT !.priority = Str(s_urgent)]
    ELSE IF cls.kind = "null" /\ ~Truthy(md.priority)
         THEN [md EXCEPT !.priority = Str(s_medium)]
         ELSE md

\* metadata is the classification's own object when it has one: the write
\* of lines 84/86 shows through classification.metadata.
Aliased(cls, md) ==
    IF cls.metadata.kind # "undef" THEN [cls EXCEPT !.metadata = md] ELSE cls

validPeriods == {s_daily, s_weekly, s_monthly}

\* metadata.period_type || 'weekly', before .toLowerCase()
RawPeriodType(md) == Or(md.period_type, Str(s_weekly))

\* lines 96-99
PeriodType(md) ==
    IF toLowerCase(RawPeriodType(md).s) \in validPeriods
    THEN Lower(RawPeriodType(md))
    ELSE Str(s_weekly)

validTypes == {s_task, s_note, s_insight, s_bookmark}

\* Mutant: the entry type is not validated.
FinalEntryTypeUnchecked(et) == et

\* lines 163-167
FinalEntryType(et) == IF et.s \in validTypes THEN et ELSE Str(s_note)

validPriorities == {s_low, s_medium, s_high, s_urgent}

validStatuses == {s_pending, s_in_progress, s_done}

\* metadata.priority?.toLowerCase() throws for a non-string that is not
\* null or undefined.
PriorityThrows(md) == ~Nullish(md.priority) /\ ~CanLower(md.priority)

\* Mutant: the priority is lowercased but not validated.
FinalPriorityUnchecked(md) ==
    Or(IF Nullish(md.priority) THEN Undef ELSE Lower(md.priority), Null)

\* lines 175-178
FinalPriority(md) ==
    LET p == IF Nullish(md.priority) THEN Undef ELSE Lower(md.priority)
        q == Or(p, Null)
    IN IF Truthy(q) /\ q.s \notin validPriorities THEN Null ELSE q

\* classification?.status?.toLowerCase() throws likewise.
StatusThrows(cls) == ~Nullish(cls.status) /\ ~CanLower(cls.status)

\* Mutant: the progress keywords are tested before the validation, which
\* then overwrites the result.
FinalStatusNoOverride(cls, t) ==
    LET s == IF Nullish(cls.status) THEN Undef ELSE Lower(cls.status)
        q == Or(s, Str(s_pending))
    IN IF q.s \notin validStatuses THEN Str(s_pending) ELSE q

\* lines 180-189
FinalStatus(cls, t) ==
    LET s == IF Nullish(cls.status) THEN Undef ELSE Lower(cls.status)
        q == Or(s, Str(s_pending))
        r == IF q.s \notin validStatuses THEN Str(s_pending) ELSE q
    IN IF ProgressKeyword(t) THEN Str(s_in_progress) ELSE r

\* The row of lines 116-126.
GoalPayload(md, slug, pt, t, n) ==
    [title       |-> Or(md.summary, Str(t)),
     target      |-> Or(md.target, Num(1)),
     period_type |-> pt,
     period_start |-> Str(format(PeriodStart(n, pt))),
     current     |-> 0,
     category    |-> Or(slug, Str(s_ideas))]

\* The row of lines 136-143: no category_id and no priority column.
CompanionPayload(md, t) ==
    [content     |-> t,
     category_id |-> Undef,
     entry_type  |-> Str(s_task),
     metadata    |-> [md EXCEPT !.kind = "obj", !.is_goal_trigger = TRUE],
     status      |-> Str(s_pending),
     priority    |-> Undef]

\* insertPayload, lines 191-202.
InsertPayload(cls, md, et, cat, t) ==
    [content     |-> t,
     category_id |-> IF cat.id = 0 THEN Undef ELSE Num(cat.id),
     entry_type  |-> FinalEntryType(et),
     metadata    |-> md,
     status      |-> FinalStatus(cls, t),
     priority    |-> FinalPriority(md)]

\* The check constraints of the database, as the source's comments state
\* them (lines 94-95, 162, 171).
EntriesAccepts(row) ==
    /\ row.entry_type.k = "str" /\ row.entry_type.s \in validTypes
    /\ row.status.k = "str" /\ row.status.s \in validStatuses
    /\ \/ Nullish(row.priority)
       \/ row.priority.k = "str" /\ row.priority.s \in validPriorities

GoalsAccepts(row) ==
    row.period_type.k = "str" /\ row.period_type.s \in validPeriods

\* (classification?.entry_type || 'note').toLowerCase() on a non-string
EntryTypeThrows(cls) == ~CanLower(RawEntryType(cls))

\* (metadata.period_type || 'weekly').toLowerCase() on a non-string
PeriodThrows(md) == ~CanLower(RawPeriodType(md))

(***************************************************************************)
(* mutationFn, one action per await.                                       *)
(***************************************************************************)
Issue(c) == [calls EXCEPT ![c] = @ + 1]

\* An exception leaves mutationFn: react-query will call onError.
Reject(err) ==
    /\ pc' = "rejected"
    /\ thrown' = err
    /\ request' = NoRequest

\* Lines 75-160 up to the next await, for the classification cls: the
\* defaults, the priority override, then the goals insert or the category
\* lookup is issued.  new Date() of line 102 reads a date of the set dates.
NormalizeAt(cls, dates) ==
    IF EntryTypeThrows(cls) \/ OverrideThrows(MetadataOf(cls, text), text)
    THEN /\ Reject("TypeError")
         /\ classification' = cls
         /\ UNCHANGED <<targetSlug, entryType, metadata, periodType, calls, now>>
    ELSE LET md == PriorityOverride(cls, MetadataOf(cls, text), text)
             et == Lower(RawEntryType(cls))
         IN /\ classification' = Aliased(cls, md)
            /\ targetSlug' = TargetSlug(cls)
            /\ entryType' = et
            /\ metadata' = md
            /\ IF et = Str(s_goal)
               THEN IF PeriodThrows(md)
                    THEN /\ Reject("TypeError")
                         /\ UNCHANGED <<periodType, calls, now>>
                    ELSE /\ periodType' = PeriodType(md)
                         /\ \E n \in dates :
                               /\ now' = n
                               /\ request' = [table |-> "goals",
                                              row |-> GoalPayload(md, TargetSlug(cls),
                                                                  PeriodType(md), text, n)]
                         /\ calls' = Issue("insertGoals")
                         /\ pc' = "awaitGoalInsert"
                         /\ thrown' = thrown
               ELSE /\ request' = [table |-> "categories", slug |-> TargetSlug(cls)]
                    /\ calls' = Issue("select")
                    /\ pc' = "awaitCategory"
                    /\ UNCHANGED <<periodType, thrown, now>>

\* The normalisation of a capture of the pipeline.
Normalize(cls) == NormalizeAt(cls, Clock)

\* Mutant: no auth guard.
MutateNoGuard(t) ==
    /\ pc = "idle"
    /\ text' = t
    /\ pc' = "awaitInvoke"
    /\ calls' = Issue("invoke")
    /\ UNCHANGED <<response, kanbanVars, dialogVars, self, parked, received, now, user, anonKey, classification, primary, fallback, targetSlug,
                   entryType, metadata, periodType, categories, request,
                   entries, goals, toasts, invalidated, result, thrown>>

\* mutationFn(text): the auth guard, then supabase.functions.invoke.
Mutate(t) ==
    /\ pc = "idle"
    /\ text' = t
    /\ IF ~user
       THEN /\ pc' = "rejected"
            /\ thrown' = "auth"
            /\ UNCHANGED calls
       ELSE /\ pc' = "awaitInvoke"
            /\ calls' = Issue("invoke")
            /\ UNCHANGED thrown
    /\ UNCHANGED <<response, kanbanVars, dialogVars, self, parked, received, now, user, anonKey, classification, primary, fallback, targetSlug,
                   entryType, metadata, periodType, categories, request,
                   entries, goals, toasts, invalidated, result>>

\* invoke resolved with { data, error: null }.
InvokeData(d) ==
    /\ pc = "awaitInvoke"
    /\ primary' = "ok"
    /\ received' = d
    /\ Normalize(d)
    /\ UNCHANGED <<response, kanbanVars, dialogVars, self, parked, user, anonKey, text, fallback, categories, entries, goals,
                   toasts, invalidated, result>>

\* Mutant: no inner catch, the fallback's error leaves mutationFn.
FallbackFailedRethrows(how) ==
    /\ fallback' = how
    /\ Reject("fallbackErr")
    /\ UNCHANGED <<toasts, classification, targetSlug, entryType, metadata,
                   periodType, calls, now>>

\* The catch block of line 46 when the fallback fails before or at its
\* await: toast.error, classification stays null.
FallbackFailed(how) ==
    /\ fallback' = how
    /\ toasts' = toasts \cup {"Erro ao chamar IA"}
    /\ Normalize(NullClassification)

\* Mutant: an error value of invoke is not thrown into the catch block.
StartFallbackThrownOnly(how) ==
    /\ primary' = how
    /\ IF ~anonKey \/ how = "error"
       THEN /\ Normalize(NullClassification)
            /\ UNCHANGED <<fallback, toasts>>
       ELSE /\ pc' = "awaitFetch"
            /\ calls' = Issue("fetch")
            /\ UNCHANGED <<fallback, toasts, classification, targetSlug,
                           entryType, metadata, periodType, request, thrown, now>>
    /\ UNCHANGED <<response, kanbanVars, dialogVars, self, parked, received, user, anonKey, text, categories, entries, goals,
                   invalidated, result>>

\* The catch block of line 46: the anon key is read and the fetch issued.
StartFallback(how) ==
    /\ primary' = how
    /\ IF ~anonKey
       THEN FallbackFailed("noKey")
       ELSE /\ pc' = "awaitFetch"
            /\ calls' = Issue("fetch")
            /\ UNCHANGED <<fallback, toasts, classification, targetSlug,
                           entryType, metadata, periodType, request, thrown, now>>
    /\ UNCHANGED <<response, kanbanVars, dialogVars, self, parked, received, user, anonKey, text, categories, entries, goals,
                   invalidated, result>>

\* invoke resolved with an error value, which line 42 throws.
InvokeError ==
    /\ pc = "awaitInvoke"
    /\ StartFallback("error")

\* invoke itself threw.
InvokeThrows ==
    /\ pc = "awaitInvoke"
    /\ StartFallback("threw")

\* fetch rejected (network).
FetchThrows ==
    /\ pc = "awaitFetch"
    /\ FallbackFailed("threw")
    /\ UNCHANGED <<response, kanbanVars, dialogVars, self, parked, received, user, anonKey, text, primary, categories, entries, goals,
                   invalidated, result>>

\* fetch resolved with !response.ok.
FetchNotOk ==
    /\ pc = "awaitFetch"
    /\ FallbackFailed("http")
    /\ UNCHANGED <<response, kanbanVars, dialogVars, self, parked, received, user, anonKey, text, primary, categories, entries, goals,
                   invalidated, result>>

\* fetch resolved with response.ok: response.json() is awaited.
FetchOk ==
    /\ pc = "awaitFetch"
    /\ pc' = "awaitJson"
    /\ calls' = Issue("json")
    /\ UNCHANGED <<response, kanbanVars, dialogVars, self, parked, received, now, user, anonKey, text, classification, primary, fallback,
                   targetSlug, entryType, metadata, periodType, categories,
                   request, entries, goals, toasts, invalidated, thrown, result>>

\* response.json() rejected: the body is not JSON.
JsonThrows ==
    /\ pc = "awaitJson"
    /\ FallbackFailed("body")
    /\ UNCHANGED <<response, kanbanVars, dialogVars, self, parked, received, user, anonKey, text, primary, categories, entries, goals,
                   invalidated, result>>

\* response.json() resolved with d.
JsonData(d) ==
    /\ pc = "awaitJson"
    /\ fallback' = "ok"
    /\ received' = d
    /\ Normalize(d)
    /\ UNCHANGED <<response, kanbanVars, dialogVars, self, parked, user, anonKey, text, primary, categories, entries, goals,
                   toasts, invalidated, result>>

\* Lines 130-143 once the goals insert returned without error: the row is
\* stored and the companion entry insert is issued.
GoalInsertOk ==
    /\ pc = "awaitGoalInsert"
    /\ GoalsAccepts(request.row)
    /\ goals' = Append(goals, request.row)
    /\ request' = [table |-> "entries", row |-> CompanionPayload(metadata, text)]
    /\ calls' = Issue("insertEntries")
    /\ pc' = "awaitCompanionInsert"
    /\ UNCHANGED <<response, kanbanVars, dialogVars, self, parked, received, now, user, anonKey, text, classification, primary, fallback,
                   targetSlug, entryType, metadata, periodType, categories,
                   entries, toasts, invalidated, thrown, result>>

\* Mutant: goalError is not thrown and the companion insert is issued.
GoalInsertErrorIgnored ==
    /\ pc = "awaitGoalInsert"
    /\ request' = [table |-> "entries", row |-> CompanionPayload(metadata, text)]
    /\ calls' = Issue("insertEntries")
    /\ pc' = "awaitCompanionInsert"
    /\ UNCHANGED <<response, kanbanVars, dialogVars, self, parked, received, now, user, anonKey, text, classification, primary, fallback,
                   targetSlug, entryType, metadata, periodType, categories,
                   entries, goals, toasts, invalidated, thrown, result>>

\* The goals insert returned goalError, which line 132 throws.
GoalInsertError ==
    /\ pc = "awaitGoalInsert"
    /\ Reject("goalError")
    /\ UNCHANGED <<response, kanbanVars, dialogVars, self, parked, received, now, user, anonKey, text, classification, primary, fallback,
                   targetSlug, entryType, metadata, periodType, categories,
                   entries, goals, calls, toasts, invalidated, result>>

\* Line 145: what follows the companion insert, whose result is not read.
AfterCompanion ==
    /\ result' = "goal"
    /\ pc' = "resolved"
    /\ request' = NoRequest

\* The companion insert stored its row.
CompanionInsertOk ==
    /\ pc = "awaitCompanionInsert"
    /\ EntriesAccepts(request.row)
    /\ entries' = Append(entries, request.row)
    /\ AfterCompanion
    /\ UNCHANGED <<response, kanbanVars, dialogVars, self, parked, received, now, user, anonKey, text, classification, primary, fallback,
                   targetSlug, entryType, metadata, periodType, categories,
                   goals, calls, toasts, invalidated, thrown>>

\* The companion insert returned an error.
CompanionInsertError ==
    /\ pc = "awaitCompanionInsert"
    /\ AfterCompanion
    /\ UNCHANGED <<response, kanbanVars, dialogVars, self, parked, received, now, user, anonKey, text, classification, primary, fallback,
                   targetSlug, entryType, metadata, periodType, categories,
                   entries, goals, calls, toasts, invalidated, thrown>>

\* Lines 160-211 for the lookup result cat: the sanitisation, then the
\* entries insert is issued.
Sanitize(cat) ==
    /\ categories' = cat
    /\ IF PriorityThrows(metadata) \/ StatusThrows(classification)
       THEN /\ Reject("TypeError")
            /\ UNCHANGED calls
       ELSE /\ request' = [table |-> "entries",
                           row |-> InsertPayload(classification, metadata,
                                                 entryType, cat, text)]
            /\ calls' = Issue("insertEntries")
            /\ pc' = "awaitEntryInsert"
            /\ UNCHANGED thrown

\* .single() found the one row with the slug.
CategoryFound(c) ==
    /\ pc = "awaitCategory"
    /\ Str(c.slug) = request.slug
    /\ Sanitize([id |-> c.id, name |-> c.name])
    /\ UNCHANGED <<response, kanbanVars, dialogVars, self, parked, received, now, user, anonKey, text, classification, primary, fallback,
                   targetSlug, entryType, metadata, periodType, entries, goals,
                   toasts, invalidated, result>>

\* Mutant: catError is thrown, as goalError and dbError are.
CategoryErrorThrows ==
    /\ pc = "awaitCategory"
    /\ Reject("catError")
    /\ UNCHANGED <<response, kanbanVars, dialogVars, self, parked, received, now, user, anonKey, text, classification, primary, fallback,
                   targetSlug, entryType, metadata, periodType, categories, calls, entries, goals,
                   toasts, invalidated, result>>

\* The lookup returned { data: null, error }: no row, or a failed request.
CategoryError ==
    /\ pc = "awaitCategory"
    /\ Sanitize(NoCategory)
    /\ UNCHANGED <<response, kanbanVars, dialogVars, self, parked, received, now, user, anonKey, text, classification, primary, fallback,
                   targetSlug, entryType, metadata, periodType, entries, goals,
                   toasts, invalidated, result>>

\* The entries insert stored its row; line 216 returns.
EntryInsertOk ==
    /\ pc = "awaitEntryInsert"
    /\ EntriesAccepts(request.row)
    /\ entries' = Append(entries, request.row)
    /\ result' = "entry"
    /\ pc' = "resolved"
    /\ request' = NoRequest
    /\ UNCHANGED <<response, kanbanVars, dialogVars, self, parked, received, now, user, anonKey, text, classification, primary, fallback,
                   targetSlug, entryType, metadata, periodType, categories,
                   goals, calls, toasts, invalidated, thrown>>

\* The entries insert returned dbError, which line 213 throws.
EntryInsertError ==
    /\ pc = "awaitEntryInsert"
    /\ Reject("dbError")
    /\ UNCHANGED <<response, kanbanVars, dialogVars, self, parked, received, now, user, anonKey, text, classification, primary, fallback,
                   targetSlug, entryType, metadata, periodType, categories,
                   entries, goals, calls, toasts, invalidated, result>>

\* onSuccess, lines 218-231.
OnSuccess ==
    /\ pc = "resolved"
    /\ IF result = "goal"
       THEN /\ invalidated' = invalidated \cup {"goals"}
            /\ toasts' = toasts \cup {"Meta criada"}
       ELSE /\ invalidated' = invalidated \cup {"entries"}
            /\ toasts' = toasts \cup {"Salvo em"}
    /\ pc' = "success"
    /\ UNCHANGED <<response, kanbanVars, dialogVars, self, parked, received, now, user, anonKey, text, classification, primary, fallback,
                   targetSlug, entryType, metadata, periodType, categories,
                   request, entries, goals, calls, thrown, result>>

\* Mutant: the mutation is retried after a failure (retry: true).
OnErrorRetries ==
    /\ pc = "rejected"
    /\ toasts' = toasts \cup {"Erro ao salvar"}
    /\ pc' = "awaitInvoke"
    /\ UNCHANGED <<response, kanbanVars, dialogVars, self, parked, received, now, user, anonKey, text, classification, primary, fallback,
                   targetSlug, entryType, metadata, periodType, categories,
                   request, entries, goals, calls, invalidated, thrown, result>>

\* onError, lines 232-237.
OnError ==
    /\ pc = "rejected"
    /\ toasts' = toasts \cup {"Erro ao salvar"}
    /\ pc' = "error"
    /\ UNCHANGED <<response, kanbanVars, dialogVars, self, parked, received, now, user, anonKey, text, classification, primary, fallback,
                   targetSlug, entryType, metadata, periodType, categories,
                   request, entries, goals, calls, invalidated, thrown, result>>

Next ==
    \/ \E t \in Texts : Mutate(t)
    \/ \E d \in Replies : InvokeData(d)
    \/ InvokeError
    \/ InvokeThrows
    \/ FetchThrows
    \/ FetchNotOk
    \/ FetchOk
    \/ JsonThrows
    \/ \E d \in Replies : JsonData(d)
    \/ GoalInsertOk
    \/ GoalInsertError
    \/ CompanionInsertOk
    \/ CompanionInsertError
    \/ \E c \in CategoriesTable : CategoryFound(c)
    \/ CategoryError
    \/ EntryInsertOk
    \/ EntryInsertError
    \/ OnSuccess
    \/ OnError

Spec == Init /\ [][Next]_vars

(***************************************************************************)
(* Properties.                                                             *)
(***************************************************************************)
\* The texts of Texts that carry an urgency keyword, and a progress keyword.
UrgentTexts == {t_urgente, t_urgent, t_pra_ontem, t_both}

ProgressTexts == {t_estou, t_fazendo, t_andamento, t_both}

\* The entries rows of this capture: stored, or in the insert in flight.
StoredEntries == {entries[i] : i \in 1..Len(entries)}

SubmittedEntries ==
    StoredEntries \cup (IF request.table = "entries" THEN {request.row} ELSE {})

\* Both transports failed: classification is unavailable.
Unavailable ==
    /\ primary \in {"error", "threw"}
    /\ fallback \in {"noKey", "threw", "http", "body"}

\* A transport delivered data.
Received == primary = "ok" \/ fallback = "ok"

\* C1 (as claimed): whenever the text contains "urgente", "urgent" or
\* "pra ontem" in any case, every entry the capture persists has priority
\* "urgent", whatever the classifier answered.
C1_UrgentKeywordForcesPriority ==
    text \in UrgentTexts => \A r \in StoredEntries : r.priority = Str(s_urgent)

\* C2 (as claimed): when both transports fail, for every text, the entry is a
\* note looked up under "ideas" with priority medium, status pending and
\* metadata {summary: text, priority: medium}.
C2_UnavailableDefaultsAnyText ==
    Unavailable =>
        /\ pc = "awaitCategory" => request.slug = Str(s_ideas)
        /\ \A r \in SubmittedEntries :
              /\ r.entry_type = Str(s_note)
              /\ r.priority = Str(s_medium)
              /\ r.status = Str(s_pending)
              /\ r.metadata = Meta("obj", Str(text), Str(s_medium), Undef, Undef)

\* C2 (amended): when both transports fail, the entry is a note looked up
\* under "ideas"; its priority and metadata.priority are "urgent" when the
\* text has an urgency keyword and "medium" otherwise; its status is
\* "in_progress" when the text has a progress keyword and "pending"
\* otherwise; metadata.summary is the text.
C2_UnavailableDefaults ==
    Unavailable =>
        LET prio == IF text \in UrgentTexts THEN Str(s_urgent) ELSE Str(s_medium)
            stat == IF text \in ProgressTexts THEN Str(s_in_progress)
                    ELSE Str(s_pending)
        IN /\ pc = "awaitCategory" => request.slug = Str(s_ideas)
           /\ \A r \in SubmittedEntries :
                 /\ r.entry_type = Str(s_note)
                 /\ r.priority = prio
                 /\ r.status = stat
                 /\ r.metadata = Meta("obj", Str(text), prio, Undef, Undef)
                 /\ r.category_id \in {Num(1), Undef}

C2_Witness ==
    /\ Unavailable
    /\ text = t_plain
    /\ Len(entries) = 1
    /\ entries[1].priority = Str(s_medium)
    /\ entries[1].category_id = Num(1)

\* C3: every row submitted to table entries has entry_type in {task, note,
\* insight, bookmark}, status in {pending, in_progress, done} and priority in
\* {low, medium, high, urgent}, null or absent.
C3_SubmittedEnumsValid ==
    \A r \in SubmittedEntries :
        /\ r.entry_type \in {Str(s_task), Str(s_note), Str(s_insight), Str(s_bookmark)}
        /\ r.status \in {Str(s_pending), Str(s_in_progress), Str(s_done)}
        /\ r.priority \in {Str(s_low), Str(s_medium), Str(s_high), Str(s_urgent),
                           Null, Undef}

C3_Witness ==
    /\ request.table = "entries"
    /\ pc = "awaitEntryInsert"
    /\ classification.entry_type = Str(v_event)
    /\ classification.status = Str(v_archived)
    /\ classification.metadata.priority = Str(v_critical)
    /\ request.row.priority = Null

\* C4: no outcome of the managed invocation or of the fallback makes
\* mutationFn throw; when both fail the classification is null, the AI
\* failure toast is shown, the pipeline is at or past the category lookup
\* and every row it submits carries the text as content.
C4_InvocationNeverAborts ==
    /\ thrown \in {"none", "auth", "TypeError", "goalError", "dbError"}
    /\ (primary # "none" /\ pc \in {"rejected", "error"}) =>
            thrown \in {"TypeError", "goalError", "dbError"}
    /\ Unavailable =>
          /\ classification = NullClassification
          /\ "Erro ao chamar IA" \in toasts
          /\ pc \in {"awaitCategory", "awaitEntryInsert", "resolved", "success",
                     "rejected", "error"}
          /\ pc \in {"rejected", "error"} => thrown = "dbError"
          /\ pc \in {"resolved", "success"} => Len(entries) = 1
          /\ \A r \in SubmittedEntries : r.content = text

C4_Witness ==
    /\ Unavailable
    /\ fallback = "body"
    /\ pc = "success"
    /\ Len(entries) = 1
    /\ entries[1].content = text

\* C5 (as claimed): a step in which an awaited insert returns an error (the
\* table is left as it was) makes mutationFn throw, without another call,
\* and a capture that threw ends in the error outcome.
C5_InsertErrorIsTerminal ==
    [][/\ (/\ pc \in {"awaitGoalInsert", "awaitCompanionInsert", "awaitEntryInsert"}
           /\ entries' = entries
           /\ goals' = goals) => (pc' = "rejected" /\ calls' = calls)
       /\ pc = "rejected" => pc' = "error"]_vars

\* C6 (as claimed): a goal capture that ended in success stored exactly one
\* goal with current = 0 and exactly one companion entry of type task,
\* status pending, tagged is_goal_trigger.
C6_GoalSuccessStoresBoth ==
    (pc = "success" /\ result = "goal") =>
        /\ Len(goals) = 1
        /\ goals[1].current = 0
        /\ Len(entries) = 1
        /\ entries[1].entry_type = Str(s_task)
        /\ entries[1].status = Str(s_pending)
        /\ entries[1].metadata.is_goal_trigger

\* C7 (as claimed): whatever value of whatever JSON type the classifier puts
\* in entry_type, status, metadata.priority or metadata.period_type of a
\* classification whose metadata is an object or missing, the pipeline does
\* not raise an error on it.
C7_BadEnumNeverThrows ==
    (Received /\ classification.metadata.kind # "prim") => thrown # "TypeError"

\* C8: without an authenticated user no step issues a call or changes the
\* tables, and the capture is rejected with the authentication error.
C8_NoUserNoCalls ==
    [][~user => /\ calls' = calls
                /\ request' = request
                /\ entries' = entries
                /\ goals' = goals
                /\ pc' \in {"rejected", "error"}
                /\ thrown' = "auth"]_vars

C8_Witness ==
    /\ ~user
    /\ pc = "error"
    /\ thrown = "auth"
    /\ calls.invoke = 0

\* C9: the fallback fetch is issued only after the managed invocation
\* failed, after every such failure when the anon key is set, never after
\* a success, and each transport is called at most once.
C9_FallbackOnlyAfterPrimaryFailure ==
    /\ calls.invoke <= 1
    /\ calls.fetch <= 1
    /\ calls.fetch = 1 => primary \in {"error", "threw"}
    /\ (primary \in {"error", "threw"} /\ anonKey) => calls.fetch = 1
    /\ primary = "ok" => calls.fetch = 0
    /\ pc = "awaitInvoke" => calls.fetch = 0

C9_Witness ==
    /\ primary = "error"
    /\ calls.fetch = 1
    /\ calls.invoke = 1
    /\ fallback = "ok"

\* C10: a classifier entry_type whose lowercase form is none of task, note,
\* insight, bookmark, goal is persisted as "note".
C10_UnknownTypeBecomesNote ==
    (/\ Received
     /\ classification.entry_type.k = "str"
     /\ toLowerCase(classification.entry_type.s) \notin
            {s_task, s_note, s_insight, s_bookmark, s_goal}) =>
        \A r \in SubmittedEntries : r.entry_type = Str(s_note)

C10_Witness ==
    /\ classification.entry_type = Str(v_event)
    /\ Len(entries) = 1
    /\ entries[1].entry_type = Str(s_note)

\* C11 (as claimed, reading "not in the set" case-insensitively): for a
\* classifier output whose metadata.priority is none of low, medium, high,
\* urgent in any case (another string, a number, null or missing) and a
\* text without urgency keyword, the persisted priority is null.
C11_InvalidPriorityBecomesNull ==
    (/\ Received
     /\ received.kind = "obj"
     /\ text \notin UrgentTexts
     /\ ~(/\ received.metadata.priority.k = "str"
          /\ toLowerCase(received.metadata.priority.s) \in
                 {s_low, s_medium, s_high, s_urgent})) =>
        \A r \in SubmittedEntries : Nullish(r.priority)

\* C12 (as claimed): for a text that starts with "estou " or contains
\* "fazendo" or "andamento" in any case, every entry the capture persists
\* has status "in_progress", whatever the classifier's status.
C12_ProgressKeywordForcesStatus ==
    text \in ProgressTexts =>
        \A r \in SubmittedEntries : r.status = Str(s_in_progress)

\* C12 (amended): for such a text the regular entry has status
\* "in_progress" whatever the classifier's status; the companion entry of
\* a goal capture has status "pending".
C12_ProgressKeywordForcesEntryStatus ==
    text \in ProgressTexts =>
        \A r \in SubmittedEntries :
            r.status = IF entryType = Str(s_goal) THEN Str(s_pending)
                       ELSE Str(s_in_progress)

C12_Witness ==
    /\ text = t_estou
    /\ received.status = Str(s_done)
    /\ Len(entries) = 1
    /\ entries[1].status = Str(s_in_progress)

\* The classification {} : every key is missing.
EmptyObject == Classification(Undef, Undef, Undef, NoMeta)

\* The reply lacks one of the three required keys; the keys it has hold
\* strings (or null), and its metadata, if any, is an object.
Malformed ==
    /\ Received
    /\ received.kind = "obj"
    /\ \/ received.category_slug = Undef
       \/ received.entry_type = Undef
       \/ received.metadata.kind = "undef"
    /\ received.entry_type.k # "num"
    /\ received.status.k # "num"
    /\ received.metadata.kind # "prim"
    /\ received.metadata.priority.k # "num"
    /\ received.metadata.period_type.k # "num"

\* The priority and the status of the record of a null classification.
NullPriority == IF text \in UrgentTexts THEN Str(s_urgent) ELSE Str(s_medium)

NullStatus == IF text \in ProgressTexts THEN Str(s_in_progress) ELSE Str(s_pending)

\* The record r is the one persisted for this text under a null
\* classification.
IsNullRecord(r) ==
    /\ r.content = text
    /\ r.category_id \in {Num(1), Undef}
    /\ r.entry_type = Str(s_note)
    /\ r.status = NullStatus
    /\ r.priority = NullPriority
    /\ r.metadata = Meta("obj", Str(text), NullPriority, Undef, Undef)

Sanitized(cls, t) ==
    LET md == PriorityOverride(cls, MetadataOf(cls, t), t)
    IN [entry_type |-> FinalEntryType(Lower(RawEntryType(cls))),
        status     |-> FinalStatus(cls, t),
        priority   |-> FinalPriority(md),
        metadata   |-> md]

\* Objects of the regular route whose normalisation throws for no text.
NormObjects ==
    {d \in Replies :
        /\ d.kind = "obj"
        /\ CanLower(RawEntryType(d))
        /\ Lower(RawEntryType(d)) # Str(s_goal)
        /\ d.metadata.kind # "prim"
        /\ ~PriorityThrows(d.metadata)
        /\ ~StatusThrows(d)}

InitNorm ==
    /\ user = TRUE
    /\ anonKey = TRUE
    /\ pc = "raw"
    /\ text = <<>>
    /\ received \in NormObjects
    /\ classification = received
    /\ primary = "ok"
    /\ fallback = "none"
    /\ targetSlug = Undef
    /\ entryType = Undef
    /\ metadata = NoMeta
    /\ periodType = Undef
    /\ categories = NoCategory
    /\ request = NoRequest
    /\ entries = <<>>
    /\ goals = <<>>
    /\ calls = [invoke |-> 0, fetch |-> 0, json |-> 0, select |-> 0,
                insertGoals |-> 0, insertEntries |-> 0]
    /\ toasts = {}
    /\ invalidated = {}
    /\ thrown = "none"
    /\ result = "none"
    /\ now = NoDate
    /\ self = 1
    /\ parked = NoLocals
    /\ ViewsInit

\* One normalisation of the object held in classification, for the text t.
\* The first output is kept in parked, the latest in request.
NormalizeObject(t) ==
    /\ pc \in {"raw", "normalized"}
    /\ text' = t
    /\ LET md == PriorityOverride(classification, MetadataOf(classification, t), t)
       IN /\ classification' = Aliased(classification, md)
          /\ targetSlug' = TargetSlug(classification)
          /\ entryType' = Lower(RawEntryType(classification))
          /\ metadata' = md
    /\ request' = [table |-> "sanitized", row |-> Sanitized(classification, t)]
    /\ parked' = IF pc = "raw"
                 THEN [pc |-> "normalized", text |-> t,
                       row |-> Sanitized(classification, t)]
                 ELSE parked
    /\ pc' = IF pc = "raw" THEN "normalized" ELSE "renormalized"
    /\ UNCHANGED <<response, kanbanVars, dialogVars, self, received, now, user, anonKey, primary, fallback,
                   periodType, categories, entries, goals, calls, toasts,
                   invalidated, thrown, result>>

NextNorm == \E t \in Texts : NormalizeObject(t)

SpecNorm == InitNorm /\ [][NextNorm]_vars

\* C14: normalisation is idempotent and stateless.  After an object has been
\* normalised twice, the second output is the output of a normalisation of
\* the object as it was received with the second text alone, and with the
\* same text both times the two outputs are identical.
C14_NormalizationStateless ==
    pc = "renormalized" =>
        /\ request.row = Sanitized(received, text)
        /\ text = parked.text => request.row = parked.row

(***************************************************************************)
(* The goal route on every date of the calendar, lines 90-146.             *)
(***************************************************************************)
\* Goal classifications, one per period_type value the classifier may send.
GoalReplies ==
    {Classification(Str(s_work), Str(s_goal), Undef,
                    Meta("obj", Str(v_resumo), Undef, pt, Num(1))) :
        pt \in PeriodValues \cup {Str(s_weekly)}}

InitPeriod ==
    /\ user = TRUE
    /\ anonKey = TRUE
    /\ pc = "awaitInvoke"
    /\ text \in {t_plain, t_urgente}
    /\ received = NullClassification
    /\ classification = NullClassification
    /\ primary = "none"
    /\ fallback = "none"
    /\ targetSlug = Undef
    /\ entryType = Undef
    /\ metadata = NoMeta
    /\ periodType = Undef
    /\ categories = NoCategory
    /\ request = NoRequest
    /\ entries = <<>>
    /\ goals = <<>>
    /\ calls = [invoke |-> 1, fetch |-> 0, json |-> 0, select |-> 0,
                insertGoals |-> 0, insertEntries |-> 0]
    /\ toasts = {}
    /\ invalidated = {}
    /\ thrown = "none"
    /\ result = "none"
    /\ now = NoDate
    /\ self = 1
    /\ parked = NoLocals
    /\ ViewsInit

\* invoke resolved with a goal classification on the date n.
GoalData(d, n) ==
    /\ pc = "awaitInvoke"
    /\ primary' = "ok"
    /\ received' = d
    /\ NormalizeAt(d, {n})
    /\ UNCHANGED <<response, kanbanVars, dialogVars, self, parked, user, anonKey, text, fallback, categories, entries, goals,
                   toasts, invalidated, result>>

NextPeriod ==
    \/ \E d \in GoalReplies, n \in AllDates : GoalData(d, n)
    \/ GoalInsertOk
    \/ GoalInsertError
    \/ CompanionInsertOk
    \/ CompanionInsertError
    \/ OnSuccess
    \/ OnError

SpecPeriod == InitPeriod /\ [][NextPeriod]_vars

\* The date a 'yyyy-MM-dd' string denotes.
DigitValue(c) == CHOOSE n \in 0..9 : Digit(n) = c

Number(str) ==
    IF Len(str) = 4
    THEN 1000 * DigitValue(str[1]) + 100 * DigitValue(str[2])
         + 10 * DigitValue(str[3]) + DigitValue(str[4])
    ELSE 10 * DigitValue(str[1]) + DigitValue(str[2])

DateOf(str) ==
    Date(Number(SubSeq(str, 1, 4)), Number(SubSeq(str, 6, 7)),
         Number(SubSeq(str, 9, 10)))

IsDateString(str) ==
    /\ Len(str) = 10
    /\ str[5] = "-" /\ str[8] = "-"
    /\ \A i \in {1, 2, 3, 4, 6, 7, 9, 10} : \E n \in 0..9 : Digit(n) = str[i]
    /\ DateOf(str).m \in 1..12
    /\ DateOf(str).d \in 1..DaysInMonth(DateOf(str).y, DateOf(str).m)

\* C15: the persisted period_start of a goal captured on the date now is,
\* for weekly, the Monday on or before now (now minus ((weekday + 6) mod 7)
\* days); for monthly, the first day of now's month; for daily, now.  It is
\* never after now and lies in now's week, month or day.
C15_PeriodStartIsBoundary ==
    \A i \in 1..Len(goals) :
        LET g  == goals[i]
            ps == DateOf(g.period_start.s)
            back == (getDay(now) + 6) % 7
        IN /\ g.period_start.k = "str"
           /\ IsDateString(g.period_start.s)
           /\ DayNumber(ps) <= DayNumber(now)
           /\ g.period_type = Str(s_weekly) =>
                 /\ DayNumber(ps) = DayNumber(now) - back
                 /\ getDay(ps) = 1
                 /\ DayNumber(now) - DayNumber(ps) < 7
           /\ g.period_type = Str(s_monthly) =>
                 ps = Date(now.y, now.m, 1)
           /\ g.period_type = Str(s_daily) => ps = now
           /\ g.period_type \in {Str(s_weekly), Str(s_monthly), Str(s_daily)}

\* A weekly goal captured on Sunday 3 March 2024 starts on Monday
\* 26 February, across the end of a leap February.
C15_Witness ==
    /\ Len(goals) = 1
    /\ now = Date(2024, 3, 3)
    /\ getDay(now) = 0
    /\ goals[1].period_type = Str(s_weekly)
    /\ goals[1].period_start.s =
          <<"2", "0", "2", "4", "-", "0", "2", "-", "2", "6">>

\* The goals rows of this capture: stored, or in the insert in flight.
SubmittedGoals ==
    {goals[i] : i \in 1..Len(goals)} \cup
    (IF request.table = "goals" THEN {request.row} ELSE {})

\* The classification received is a goal with a metadata object.
GoalReceived ==
    /\ Received
    /\ received.kind = "obj"
    /\ received.entry_type.k = "str"
    /\ toLowerCase(received.entry_type.s) = s_goal
    /\ received.metadata.kind = "obj"

\* C16: for every goal capture the persisted period_type is the lowercased
\* classifier value when that is daily, weekly or monthly, and "weekly" when
\* the classifier value is absent, null or anything else; the capture gets
\* as far as submitting the goal.
C16_PeriodTypeSanitized ==
    GoalReceived =>
        LET v == received.metadata.period_type
            expected == IF v.k = "str" /\ toLowerCase(v.s) \in {s_daily, s_weekly, s_monthly}
                        THEN Str(toLowerCase(v.s))
                        ELSE Str(s_weekly)
        IN /\ thrown # "TypeError"
           /\ \A g \in SubmittedGoals : g.period_type = expected

\* The value v is an upper- or mixed-case spelling of a member of valid.
Misspelled(v, valid) ==
    /\ v.k = "str"
    /\ toLowerCase(v.s) \in valid
    /\ v.s # toLowerCase(v.s)

\* The entries rows of a capture that took the regular route.
RegularEntries == IF entryType = Str(s_goal) THEN {} ELSE SubmittedEntries

\* C17 (as claimed): any upper- or mixed-case spelling of a valid
\* entry_type, status, priority or period_type is persisted as its lowercase
\* form.
C17_CaseInsensitiveEnums ==
    (Received /\ received.kind = "obj") =>
        /\ \A r \in RegularEntries :
              /\ Misspelled(received.entry_type, validTypes) =>
                    r.entry_type = Str(toLowerCase(received.entry_type.s))
              /\ Misspelled(received.status, validStatuses) =>
                    r.status = Str(toLowerCase(received.status.s))
              /\ Misspelled(received.metadata.priority, validPriorities) =>
                    r.priority = Str(toLowerCase(received.metadata.priority.s))
        /\ \A g \in SubmittedGoals :
              Misspelled(received.metadata.period_type, validPeriods) =>
                    g.period_type = Str(toLowerCase(received.metadata.period_type.s))

\* C17 (amended): the same, except that a priority gives way to "urgent"
\* when the text has an urgency keyword and a status to "in_progress" when
\* the text has a progress keyword.
C17_CaseInsensitiveUnlessKeyword ==
    (Received /\ received.kind = "obj") =>
        /\ \A r \in RegularEntries :
              /\ Misspelled(received.entry_type, validTypes) =>
                    r.entry_type = Str(toLowerCase(received.entry_type.s))
              /\ Misspelled(received.status, validStatuses) =>
                    r.status = IF text \in ProgressTexts
                               THEN Str(s_in_progress)
                               ELSE Str(toLowerCase(received.status.s))
              /\ Misspelled(received.metadata.priority, validPriorities) =>
                    r.priority = IF text \in UrgentTexts
                                 THEN Str(s_urgent)
                                 ELSE Str(toLowerCase(received.metadata.priority.s))
        /\ \A g \in SubmittedGoals :
              Misspelled(received.metadata.period_type, validPeriods) =>
                    g.period_type = Str(toLowerCase(received.metadata.period_type.s))

\* "BOOKMARK", "IN_PROGRESS" and "HIGH" stored as bookmark, in_progress, high.
C17_Witness ==
    /\ received.entry_type = Str(v_BOOKMARK)
    /\ received.status = Str(v_IN_PROGRESS)
    /\ received.metadata.priority = Str(v_HIGH)
    /\ text = t_plain
    /\ Len(entries) = 1
    /\ entries[1].entry_type = Str(s_bookmark)
    /\ entries[1].status = Str(s_in_progress)
    /\ entries[1].priority = Str(s_high)

\* The rows of the categories table with the resolved slug.
Matching == {c \in CategoriesTable : Str(c.slug) = targetSlug}

\* Whatever the lookup returned, the capture went on: the entries insert was
\* issued unless the sanitisation threw.
LookupNeverAborts ==
    (calls.select = 1 /\ pc # "awaitCategory") =>
        \/ calls.insertEntries = 1
        \/ thrown = "TypeError"

NoCalls ==
    [invoke |-> 0, fetch |-> 0, json |-> 0, select |-> 0,
     insertGoals |-> 0, insertEntries |-> 0]

\* The locals of a call of mutationFn that has not run yet.
FreshLocals ==
    [pc |-> "idle", text |-> <<>>, classification |-> NullClassification,
     received |-> NullClassification, primary |-> "none", fallback |-> "none",
     targetSlug |-> Undef, entryType |-> Undef, metadata |-> NoMeta,
     periodType |-> Undef, now |-> NoDate, categories |-> NoCategory,
     request |-> NoRequest, calls |-> NoCalls, thrown |-> "none",
     result |-> "none"]

\* The locals of the running call.
Locals ==
    [pc |-> pc, text |-> text, classification |-> classification,
     received |-> received, primary |-> primary, fallback |-> fallback,
     targetSlug |-> targetSlug, entryType |-> entryType, metadata |-> metadata,
     periodType |-> periodType, now |-> now, categories |-> categories,
     request |-> request, calls |-> calls, thrown |-> thrown,
     result |-> result]

\* The texts and replies of the two captures.
TwoTexts == {t_urgente, t_estou}

TwoReplies ==
    {Classification(Str(s_work), Str(v_BOOKMARK), Str(s_done),
                    Meta("obj", Undef, Str(s_low), Undef, Undef)),
     Classification(Undef, Str(s_goal), Undef,
                    Meta("obj", Str(v_resumo), Undef, Str(s_monthly), Num(1)))}

InitTwo ==
    /\ user = TRUE
    /\ anonKey = TRUE
    /\ pc = "idle"
    /\ text = <<>>
    /\ classification = NullClassification
    /\ received = NullClassification
    /\ primary = "none"
    /\ fallback = "none"
    /\ targetSlug = Undef
    /\ entryType = Undef
    /\ metadata = NoMeta
    /\ periodType = Undef
    /\ now = NoDate
    /\ categories = NoCategory
    /\ request = NoRequest
    /\ calls = NoCalls
    /\ thrown = "none"
    /\ result = "none"
    /\ entries = <<>>
    /\ goals = <<>>
    /\ toasts = {}
    /\ invalidated = {}
    /\ self = 1
    /\ parked = FreshLocals
    /\ ViewsInit

\* Mutant: classification is declared outside mutationFn and so is one
\* variable for all calls.
SwitchSharedClassification ==
    /\ parked' = Locals
    /\ self' = 3 - self
    /\ pc' = parked.pc
    /\ text' = parked.text
    /\ received' = parked.received
    /\ primary' = parked.primary
    /\ fallback' = parked.fallback
    /\ targetSlug' = parked.targetSlug
    /\ entryType' = parked.entryType
    /\ metadata' = parked.metadata
    /\ periodType' = parked.periodType
    /\ now' = parked.now
    /\ categories' = parked.categories
    /\ request' = parked.request
    /\ calls' = parked.calls
    /\ thrown' = parked.thrown
    /\ result' = parked.result
    /\ UNCHANGED <<response, kanbanVars, dialogVars, classification, user, anonKey, entries, goals, toasts, invalidated>>

\* The running call is suspended at its await (or has ended) and the other
\* call runs on.
Switch ==
    /\ parked' = Locals
    /\ self' = 3 - self
    /\ pc' = parked.pc
    /\ text' = parked.text
    /\ classification' = parked.classification
    /\ received' = parked.received
    /\ primary' = parked.primary
    /\ fallback' = parked.fallback
    /\ targetSlug' = parked.targetSlug
    /\ entryType' = parked.entryType
    /\ metadata' = parked.metadata
    /\ periodType' = parked.periodType
    /\ now' = parked.now
    /\ categories' = parked.categories
    /\ request' = parked.request
    /\ calls' = parked.calls
    /\ thrown' = parked.thrown
    /\ result' = parked.result
    /\ UNCHANGED <<response, kanbanVars, dialogVars, user, anonKey, entries, goals, toasts, invalidated>>

NextTwo ==
    \/ \E t \in TwoTexts : Mutate(t)
    \/ \E d \in TwoReplies : InvokeData(d)
    \/ InvokeError
    \/ InvokeThrows
    \/ FetchThrows
    \/ FetchNotOk
    \/ FetchOk
    \/ JsonThrows
    \/ \E d \in TwoReplies : JsonData(d)
    \/ GoalInsertOk
    \/ GoalInsertError
    \/ CompanionInsertOk
    \/ CompanionInsertError
    \/ \E c \in CategoriesTable : CategoryFound(c)
    \/ CategoryError
    \/ EntryInsertOk
    \/ EntryInsertError
    \/ OnSuccess
    \/ OnError
    \/ Switch

SpecTwo == InitTwo /\ [][NextTwo]_vars

\* The records a capture persists when it runs alone, from what it was
\* given: the reply rcv, the text t, the lookup result cat, the date n.
AloneMetadata(rcv, t) == PriorityOverride(rcv, MetadataOf(rcv, t), t)

AloneEntry(rcv, t, cat) ==
    InsertPayload(Aliased(rcv, AloneMetadata(rcv, t)), AloneMetadata(rcv, t),
                  Lower(RawEntryType(rcv)), cat, t)

AloneCompanion(rcv, t) == CompanionPayload(AloneMetadata(rcv, t), t)

AloneGoal(rcv, t, n) ==
    GoalPayload(AloneMetadata(rcv, t), TargetSlug(rcv),
                PeriodType(AloneMetadata(rcv, t)), t, n)

\* A step of the running capture adds to a table only the record the capture
\* persists when run alone, and leaves the other capture's locals alone; a
\* change of the running capture changes no table.
Independent ==
    /\ entries' # entries =>
          entries' = Append(entries,
                            IF Lower(RawEntryType(received)) = Str(s_goal)
                            THEN AloneCompanion(received, text)
                            ELSE AloneEntry(received, text, categories))
    /\ goals' # goals =>
          goals' = Append(goals, AloneGoal(received, text, now))
    /\ self' = self => parked' = parked
    /\ self' # self => entries' = entries /\ goals' = goals

\* C19: captures run concurrently are independent.  For two captures and
\* any interleaving of their network calls and inserts, every record a
\* capture persists is the record it persists when run alone, and no step of
\* one capture changes state of the other.
C19_CapturesIndependent == [][Independent]_vars

\* Both captures are in flight with different texts: one has stored its goal
\* and awaits the companion insert, the other awaits its entries insert.
C19_Witness ==
    /\ parked.pc = "awaitCompanionInsert"
    /\ pc = "awaitEntryInsert"
    /\ text # parked.text
    /\ Len(goals) = 1
    /\ goals[1].title = Str(v_resumo)
    /\ request.row.content = text

(***************************************************************************)
(* Termination.  Every external call returns or fails: a capture that has  *)
(* been invoked is not left suspended for ever.                            *)
(***************************************************************************)
Invoked == pc # "idle"

\* Replies that take a capture down every branch: the two routes, no
\* classification, and values on which the normalisation throws before and
\* after the category lookup.
BranchReplies ==
    TwoReplies \cup
    {NullClassification,
     Classification(Undef, Num(42), Undef, NoMeta),
     Classification(Str(v_nowhere), Str(s_task), Num(7), NoMeta),
     Classification(Undef, Str(v_Goal), Undef,
                    Meta("obj", Undef, Undef, Num(5), Undef)),
     Classification(Undef, Str(v_event), Str(v_archived), PrimMeta)}

NextOne ==
    \/ \E t \in TwoTexts : Mutate(t)
    \/ \E d \in BranchReplies : InvokeData(d)
    \/ InvokeError
    \/ InvokeThrows
    \/ FetchThrows
    \/ FetchNotOk
    \/ FetchOk
    \/ JsonThrows
    \/ \E d \in BranchReplies : JsonData(d)
    \/ GoalInsertOk
    \/ GoalInsertError
    \/ CompanionInsertOk
    \/ CompanionInsertError
    \/ \E c \in CategoriesTable : CategoryFound(c)
    \/ CategoryError
    \/ EntryInsertOk
    \/ EntryInsertError
    \/ OnSuccess
    \/ OnError

FairSpec == Init /\ [][NextOne]_vars /\ WF_vars(Invoked /\ NextOne)

\* The place of each step in the pipeline.
Rank ==
    [idle |-> 0, awaitInvoke |-> 1, awaitFetch |-> 2, awaitJson |-> 3,
     awaitGoalInsert |-> 4, awaitCategory |-> 4,
     awaitCompanionInsert |-> 5, awaitEntryInsert |-> 5,
     resolved |-> 6, rejected |-> 6, success |-> 7, error |-> 7]

\* The outcomes: onSuccess has run after a return, onError after a throw.
Succeeded ==
    /\ pc = "success"
    /\ result # "none" /\ thrown = "none"
    /\ "Erro ao salvar" \notin toasts

Failed ==
    /\ pc = "error"
    /\ result = "none" /\ thrown # "none"
    /\ toasts \cap {"Meta criada", "Salvo em"} = {}
    /\ invalidated = {}

\* Every step moves forward in the pipeline, and an outcome is final.
Forward ==
    /\ Rank[pc'] > Rank[pc]
    /\ pc \notin {"success", "error"}

\* C20: every invoked capture eventually ends in exactly one of the success
\* or error outcomes, provided each external call eventually returns or
\* fails; the pipeline has no loop and revisits no step.
C20_CaptureTerminates ==
    /\ Invoked ~> (Succeeded \/ Failed)
    /\ [](~(Succeeded /\ Failed))
    /\ [][Forward]_vars

\* A capture that went through the fallback and the goal route, the longest
\* path, has ended in success.
C20_Witness ==
    /\ Succeeded
    /\ calls.fetch = 1 /\ calls.json = 1
    /\ calls.insertGoals = 1 /\ calls.insertEntries = 1

\* A missing value counts as null.
OrNull(v) == IF Nullish(v) THEN Null ELSE v

\* C21: the priority column and metadata.priority of an entry are kept
\* consistent: every stored entry has its priority column equal to its
\* metadata.priority, a missing value counting as null.
C21_PriorityColumnMatchesMetadata ==
    \A r \in StoredEntries : OrNull(r.priority) = OrNull(r.metadata.priority)

\* The companion history entries: stored, or in the insert in flight.
Companions == {r \in SubmittedEntries : r.metadata.is_goal_trigger}

\* C23: the companion history entry is inserted only after the goals insert
\* has succeeded: a companion entry, stored or submitted, exists only when
\* the capture's goal row is stored, and after a failed goals insert the
\* entries table is as it was and no entries insert has been issued.
C23_CompanionOnlyAfterGoal ==
    /\ Companions # {} =>
          /\ Len(goals) = 1
          /\ goals[1].title = Or(metadata.summary, Str(text))
    /\ thrown = "goalError" =>
          /\ entries = <<>>
          /\ goals = <<>>
          /\ calls.insertEntries = 0

\* The goal and then its companion entry are stored.
C23_Witness ==
    /\ Len(goals) = 1
    /\ Len(entries) = 1
    /\ entries[1].metadata.is_goal_trigger
    /\ entries[1].entry_type = Str(s_task)
    /\ pc = "success"

\* C26: after a capture has ended in success, the query cache of every table
\* it wrote to has been invalidated: 'entries' whenever an entries row was
\* inserted, 'goals' whenever a goals row was inserted.
C26_WrittenTablesInvalidated ==
    pc = "success" =>
        /\ entries # <<>> => "entries" \in invalidated
        /\ goals # <<>> => "goals" \in invalidated

(***************************************************************************)
(* KanbanView: the columns and what each shows.                            *)
(***************************************************************************)
\* statusColumns and priorityColumns, by id.
statusColumns == <<s_pending, s_in_progress, s_done>>

priorityColumns == <<s_urgent, s_high, s_medium, s_low>>

ColumnIds(by) ==
    IF by = "status"
    THEN {statusColumns[i] : i \in 1..Len(statusColumns)}
    ELSE {priorityColumns[i] : i \in 1..Len(priorityColumns)}

\* (entry.metadata as any)?.priority || 'medium'
GroupPriority(entry) == Or(entry.metadata.priority, Str(s_medium))

\* The filter of getColumnEntries, with no date filter set.
ShownIn(entry, by, columnId) ==
    IF by = "status"
    THEN entry.status = Str(columnId)
    ELSE \/ columnId = s_medium /\ ~Truthy(GroupPriority(entry))
         \/ GroupPriority(entry) = Str(columnId)

\* The query of the Kanban: .eq('entry_type', 'task')
IsTask(entry) == entry.entry_type = Str(s_task)

\* C24: every entry of type task the capture pipeline persisted is shown in
\* exactly one Kanban column under status grouping and in exactly one under
\* priority grouping.
C24_TaskInExactlyOneColumn ==
    \A r \in StoredEntries :
        IsTask(r) =>
            \A by \in {"status", "priority"} :
                Cardinality({c \in ColumnIds(by) : ShownIn(r, by, c)}) = 1

(***************************************************************************)
(* The classify-entry endpoint, supabase/functions/classify-entry/index.ts *)
(* lines 10-138, and the capture whose transports it answers.              *)
(*                                                                         *)
(* The text of the model is a sequence of tokens: "{" and "}", "m" for the *)
(* members of an object, "7" for a number literal and "#" for anything     *)
(* that is not JSON (a markdown fence, chatter).                           *)
(***************************************************************************)
\* text.match(/\{[\s\S]*\}/)?.[0] || text: from the first "{" to the last
\* "}" after it, the whole text when there is no such span.
Extract(tokens) ==
    LET opens  == {i \in 1..Len(tokens) : tokens[i] = "{"}
        closes == {j \in 1..Len(tokens) : tokens[j] = "}"}
        first  == CHOOSE i \in opens : \A k \in opens : i <= k
        last   == CHOOSE j \in closes : \A k \in closes : k <= j
    IN IF opens # {} /\ closes # {} /\ first < last
       THEN SubSeq(tokens, first, last)
       ELSE tokens

\* JSON.parse accepts an object, with or without members, and a number.
Parses(tokens) == tokens \in {<<"{", "}">>, <<"{", "m", "}">>, <<"7">>}

\* A reply that is a JSON number: no key of it is defined.
NumberReply ==
    [kind |-> "prim", category_slug |-> Undef, entry_type |-> Undef,
     status |-> Undef, metadata |-> NoMeta]

\* What JSON.parse returns; payload is the object the members denote.
Parsed(tokens, payload) ==
    IF tokens = <<"{", "m", "}">> THEN payload
    ELSE IF tokens = <<"{", "}">> THEN EmptyObject
    ELSE NumberReply

\* new Response(JSON.stringify({ error: error.message }), { status: 400 })
ErrorResponse(message) ==
    [status |-> 400, threw |-> FALSE,
     body |-> [kind |-> "json", error |-> message, value |-> NullClassification]]

\* new Response(JSON.stringify(result)): status 200
ResultResponse(parsed) ==
    [status |-> 200, threw |-> FALSE,
     body |-> [kind |-> "json", error |-> "", value |-> parsed]]

\* Mutant: the content is not checked.
HandlerAnyContent(req, key, model) ==
    IF req.method = "OPTIONS"
    THEN [status |-> 200, threw |-> FALSE,
          body |-> [kind |-> "text", error |-> "", value |-> NullClassification]]
    ELSE IF ~key THEN ErrorResponse("Missing GEMINI_API_KEY")
    ELSE IF req.body.kind = "invalid" THEN ErrorResponse("SyntaxError")
    ELSE IF req.body.kind = "null" THEN ErrorResponse("TypeError")
    ELSE IF model.fetch = "threw" THEN ErrorResponse("fetch failed")
    ELSE IF model.fetch = "notOk" THEN ErrorResponse("API Error")
    ELSE IF model.fetch = "badJson" THEN ErrorResponse("SyntaxError")
    ELSE IF ~Truthy(model.text) THEN ErrorResponse("Empty AI response")
    ELSE IF model.text.k # "str" THEN ErrorResponse("TypeError")
    ELSE IF ~Parses(Extract(model.text.s)) THEN ErrorResponse("SyntaxError")
    ELSE ResultResponse(Parsed(Extract(model.text.s), model.payload))

\* The handler of Deno.serve, lines 10-138.  key: GEMINI_API_KEY is set;
\* model: how the call of the model ended and the text it returned.
Handler(req, key, model) ==
    IF req.method = "OPTIONS"
    THEN [status |-> 200, threw |-> FALSE,
          body |-> [kind |-> "text", error |-> "", value |-> NullClassification]]
    ELSE IF ~key THEN ErrorResponse("Missing GEMINI_API_KEY")
    ELSE IF req.body.kind = "invalid" THEN ErrorResponse("SyntaxError")
    ELSE IF req.body.kind = "null" THEN ErrorResponse("TypeError")
    ELSE IF ~Truthy(req.body.content) THEN ErrorResponse("Content is required")
    ELSE IF model.fetch = "threw" THEN ErrorResponse("fetch failed")
    ELSE IF model.fetch = "notOk" THEN ErrorResponse("API Error")
    ELSE IF model.fetch = "badJson" THEN ErrorResponse("SyntaxError")
    ELSE IF ~Truthy(model.text) THEN ErrorResponse("Empty AI response")
    ELSE IF model.text.k # "str" THEN ErrorResponse("TypeError")
    ELSE IF ~Parses(Extract(model.text.s)) THEN ErrorResponse("SyntaxError")
    ELSE ResultResponse(Parsed(Extract(model.text.s), model.payload))

\* The requests the endpoint may get.
Requests ==
    {[method |-> "OPTIONS", body |-> [kind |-> "invalid", content |-> Undef]]} \cup
    {[method |-> "POST", body |-> b] :
        b \in {[kind |-> "invalid", content |-> Undef],
               [kind |-> "null", content |-> Undef]} \cup
              {[kind |-> "json", content |-> c] :
                  c \in {Undef, Null, Str(<<>>), Str(t_plain), Num(0)}}}

\* The texts the model may return.
ModelTexts ==
    {Undef, Str(<<>>), Num(5),
     Str(<<"{", "m", "}">>),
     Str(<<"#", "{", "m", "}", "#">>),
     Str(<<"{", "}">>),
     Str(<<"7">>),
     Str(<<"#">>),
     Str(<<"{", "m", "}", "#", "{", "m", "}">>),
     Str(<<"}", "{">>)}

\* The objects the members of the model text may denote.
ModelPayloads ==
    {Classification(Str(s_work), Str(s_task), Str(s_done),
                    Meta("obj", Undef, Str(s_low), Undef, Undef)),
     Classification(Undef, Str(s_goal), Undef,
                    Meta("obj", Undef, Undef, Str(s_monthly), Undef))}

\* How the call of the model may end.
ModelReplies ==
    {[fetch |-> f, text |-> Undef, payload |-> NullClassification] :
        f \in {"threw", "notOk", "badJson"}} \cup
    {[fetch |-> "ok", text |-> t, payload |-> p] :
        t \in ModelTexts, p \in ModelPayloads}

\* The request of the capture: body: { content: text }
CaptureRequest ==
    [method |-> "POST", body |-> [kind |-> "json", content |-> Str(text)]]

\* The handler answers a request that is not of the capture.
Serve(req, key, model) ==
    /\ pc = "idle"
    /\ response' = [for |-> "other", req |-> req, key |-> key, model |-> model,
                    res |-> Handler(req, key, model)]
    /\ UNCHANGED <<kanbanVars, dialogVars, self, parked, received, now, user, anonKey, pc, text,
                   classification, primary, fallback, targetSlug, entryType,
                   metadata, periodType, categories, request, entries, goals,
                   calls, toasts, invalidated, thrown, result>>

\* The transport of the capture that awaits an answer.
Awaited ==
    IF pc = "awaitInvoke" THEN "invoke"
    ELSE IF pc = "awaitFetch" THEN "fetch"
    ELSE "none"

\* The handler answers the request of the capture.
ServeCapture(key, model) ==
    /\ Awaited # "none"
    /\ response.for # Awaited
    /\ response' = [for |-> Awaited, req |-> CaptureRequest, key |-> key,
                    model |-> model, res |-> Handler(CaptureRequest, key, model)]
    /\ UNCHANGED <<kanbanVars, dialogVars, self, parked, received, now, user, anonKey, pc, text,
                   classification, primary, fallback, targetSlug, entryType,
                   metadata, periodType, categories, request, entries, goals,
                   calls, toasts, invalidated, thrown, result>>

\* supabase.functions.invoke and fetch deliver the answer of the endpoint.
Answered(status) ==
    /\ Awaited # "none"
    /\ response.for = Awaited
    /\ response.res.status = status

InitServe ==
    /\ Init
    /\ user = TRUE
    /\ anonKey = TRUE

NextServe ==
    \/ \E req \in Requests, key \in BOOLEAN, model \in ModelReplies :
          Serve(req, key, model)
    \/ \E key \in BOOLEAN, model \in ModelReplies : ServeCapture(key, model)
    \/ \E t \in {<<>>, t_urgente} : Mutate(t)
    \/ Answered(200) /\ InvokeData(response.res.body.value)
    \/ Answered(400) /\ InvokeError
    \/ InvokeThrows
    \/ FetchThrows
    \/ Answered(400) /\ FetchNotOk
    \/ Answered(200) /\ FetchOk
    \/ pc = "awaitJson" /\ JsonData(response.res.body.value)
    \/ GoalInsertOk
    \/ GoalInsertError
    \/ CompanionInsertOk
    \/ CompanionInsertError
    \/ \E c \in CategoriesTable : CategoryFound(c)
    \/ CategoryError
    \/ EntryInsertOk
    \/ EntryInsertError
    \/ OnSuccess
    \/ OnError

SpecServe == InitServe /\ [][NextServe]_vars

\* The answer to a request that is not OPTIONS must be an error.
MustFail(req, key, model) ==
    \/ ~key
    \/ req.body.kind # "json"
    \/ req.body.content \in {Undef, Null, Str(<<>>)}
    \/ model.fetch # "ok"
    \/ model.text \in {Undef, Null, Str(<<>>)}
    \/ model.text.k = "str" /\ ~Parses(Extract(model.text.s))

captureVars == <<user, anonKey, pc, text, classification, primary, fallback,
                 targetSlug, entryType, metadata, periodType, categories,
                 request, goals, calls, toasts, thrown, result, received, now,
                 self, parked, response>>

\* Largest number of updates the board issues in a behaviour.
MaxUpdates == 2

v_editado == <<"e","d","i","t","a","d","o">>

\* checklist?: string[] | { text: string; done: boolean }[]
StringItem(txt) == [kind |-> "string", text |-> txt]

ObjectItem(txt, done) == [kind |-> "object", text |-> txt, done |-> done]

Row(id, payload, checklist) == payload @@ [id |-> id, checklist |-> checklist]

\* The record the capture of text t with classification cls inserts into
\* entries when no category matches.
Persisted(cls, t) ==
    InsertPayload(cls, PriorityOverride(cls, MetadataOf(cls, t), t),
                  Lower(RawEntryType(cls)), NoCategory, t)

\* Captures whose rows the board starts from: a task with a priority and a
\* checklist, a task with neither that is done, a task whose priority the
\* classifier spelled in capitals, and a note.
KanbanCaptures ==
    {[cls |-> Classification(Str(s_work), Str(s_task), Undef,
                             Meta("obj", Str(v_resumo), Str(s_high), Undef, Undef)),
      text |-> t_plain,
      checklist |-> <<StringItem("leite"), ObjectItem("ovos", TRUE)>>],
     [cls |-> Classification(Undef, Str(s_task), Str(s_done),
                             Meta("obj", Undef, Undef, Undef, Undef)),
      text |-> t_plain,
      checklist |-> <<>>],
     [cls |-> Classification(Undef, Str(s_task), Undef,
                             Meta("obj", Undef, Str(v_HIGH), Undef, Undef)),
      text |-> t_estouro,
      checklist |-> <<>>],
     [cls |-> NullClassification, text |-> t_plain, checklist |-> <<>>]}

\* The tables the board starts from: two captures were saved, the default
\* note last.
KanbanTables ==
    {<<Row(1, Persisted(a.cls, a.text), a.checklist),
       Row(2, Persisted(NullClassification, t_plain), <<>>)>> :
        a \in KanbanCaptures}

InitKanban ==
    /\ user = TRUE
    /\ anonKey = TRUE
    /\ pc = "idle"
    /\ text = <<>>
    /\ classification = NullClassification
    /\ primary = "none"
    /\ fallback = "none"
    /\ targetSlug = Undef
    /\ entryType = Undef
    /\ metadata = NoMeta
    /\ periodType = Undef
    /\ categories = NoCategory
    /\ request = NoRequest
    /\ entries \in KanbanTables
    /\ goals = <<>>
    /\ calls = [invoke |-> 0, fetch |-> 0, json |-> 0, select |-> 0,
                insertGoals |-> 0, insertEntries |-> 0]
    /\ toasts = {}
    /\ invalidated = {}
    /\ thrown = "none"
    /\ result = "none"
    /\ received = NullClassification
    /\ now = NoDate
    /\ self = 1
    /\ parked = NoLocals
    /\ ViewsInit

Reverse(s) == [i \in 1..Len(s) |-> s[Len(s) + 1 - i]]

\* queryFn, lines 94-102: the task rows, the newest first.
queryFn ==
    /\ data' = Reverse(SelectSeq(entries, IsTask))
    /\ event' = NoEvent
    /\ UNCHANGED <<updates, captureVars, dialogVars, entries, invalidated,
                   draggedEntry, groupBy, mutations>>

\* The select fails: data is null and the board shows data || [].
queryFnNoData ==
    /\ data' = <<>>
    /\ event' = NoEvent
    /\ UNCHANGED <<updates, captureVars, dialogVars, entries, invalidated,
                   draggedEntry, groupBy, mutations>>

\* A card is rendered by the column whose getColumnEntries holds its entry.
Shown(entry) == \E c \in ColumnIds(groupBy) : ShownIn(entry, groupBy, c)

setGroupBy(by) ==
    /\ by # groupBy
    /\ groupBy' = by
    /\ event' = NoEvent
    /\ UNCHANGED <<updates, captureVars, dialogVars, entries, invalidated, data,
                   draggedEntry, mutations>>

\* lines 191-193
handleDragStart(k) ==
    /\ Shown(data[k])
    /\ draggedEntry' = data[k]
    /\ event' = NoEvent
    /\ UNCHANGED <<updates, captureVars, dialogVars, entries, invalidated, data,
                   groupBy, mutations>>

\* lines 195-197
handleDragEnd ==
    /\ draggedEntry' = NoEntry
    /\ event' = [type |-> "dragEnd"]
    /\ UNCHANGED <<updates, captureVars, dialogVars, entries, invalidated, data,
                   groupBy, mutations>>

\* updateStatusMutation.mutate({ id, status }): .update({ status })
StatusUpdate(id, status) ==
    [kind |-> "status", id |-> id, set |-> [status |-> Str(status)]]

\* updatePriorityMutation.mutate({ id, priority, entry }):
\* .update({ priority, metadata: { ...(entry.metadata || {}), priority } })
PriorityUpdate(id, priority, entry) ==
    [kind |-> "priority", id |-> id,
     set |-> [priority |-> Str(priority),
              metadata |-> [entry.metadata EXCEPT !.kind = "obj",
                                                  !.priority = Str(priority)]]]

\* updateChecklistMutation.mutate({ id, checklist }): .update({ checklist })
ChecklistUpdate(id, checklist) ==
    [kind |-> "checklist", id |-> id, set |-> [checklist |-> checklist]]

\* Mutant: the drop does not compare the entry's group with the column.
IssuedAlways(dragged, by, columnId) ==
    IF dragged = NoEntry THEN <<>>
    ELSE IF by = "status"
         THEN <<StatusUpdate(dragged.id, columnId)>>
         ELSE <<PriorityUpdate(dragged.id, columnId, dragged)>>

\* The updates handleDrop issues, lines 200-220.
Issued(dragged, by, columnId) ==
    IF dragged = NoEntry THEN <<>>
    ELSE IF by = "status"
         THEN IF dragged.status # Str(columnId)
              THEN <<StatusUpdate(dragged.id, columnId)>>
              ELSE <<>>
         ELSE IF GroupPriority(dragged) # Str(columnId)
              THEN <<PriorityUpdate(dragged.id, columnId, dragged)>>
              ELSE <<>>

\* lines 199-222
handleDrop(columnId) ==
    /\ updates < MaxUpdates
    /\ mutations' = mutations \o Issued(draggedEntry, groupBy, columnId)
    /\ updates' = updates + Len(Issued(draggedEntry, groupBy, columnId))
    /\ draggedEntry' = NoEntry
    /\ event' = [type |-> "drop", columnId |-> columnId,
                 toast |-> IF groupBy = "status" /\ mutations' # mutations
                           THEN "Movido para" ELSE "none"]
    /\ UNCHANGED <<captureVars, dialogVars, entries, invalidated, data,
                   groupBy>>

\* Mutant: a done item stays done.
ToggledAlwaysDone(item) ==
    IF item.kind = "string"
    THEN ObjectItem(item.text, TRUE)
    ELSE [item EXCEPT !.done = TRUE]

\* lines 169-174
Toggled(item) ==
    IF item.kind = "string"
    THEN ObjectItem(item.text, TRUE)
    ELSE [item EXCEPT !.done = ~item.done]

\* The cards render the first three items of a checklist, line 546.
Rendered(checklist) == 1..(IF Len(checklist) < 3 THEN Len(checklist) ELSE 3)

\* lines 164-177: newChecklist is a copy, the entry keeps its array.
handleToggleChecklist(k, itemIndex) ==
    /\ updates < MaxUpdates
    /\ updates' = updates + 1
    /\ Shown(data[k])
    /\ itemIndex \in Rendered(data[k].checklist)
    /\ LET currentChecklist == data[k].checklist
           newChecklist == [currentChecklist EXCEPT ![itemIndex] = Toggled(@)]
       IN mutations' = Append(mutations, ChecklistUpdate(data[k].id, newChecklist))
    /\ event' = [type |-> "toggle", k |-> k, itemIndex |-> itemIndex]
    /\ UNCHANGED <<captureVars, dialogVars, entries, invalidated, data,
                   draggedEntry, groupBy>>

Remove(s, i) == SubSeq(s, 1, i - 1) \o SubSeq(s, i + 1, Len(s))

\* .update(set).eq('id', id) as the database applies it.
Update(table, id, set) ==
    [k \in DOMAIN table |->
        IF table[k].id = id
        THEN [f \in DOMAIN table[k] |->
                 IF f \in DOMAIN set THEN set[f] ELSE table[k][f]]
        ELSE table[k]]

\* The keys onSuccess invalidates, lines 114-115, 139 and 157.
Invalidates(kind) ==
    IF kind = "status" THEN {"entries", "stats"} ELSE {"entries"}

\* An update in flight succeeds: mutationFn resolves and onSuccess runs.
UpdateOk(i) ==
    /\ entries' = Update(entries, mutations[i].id, mutations[i].set)
    /\ mutations' = Remove(mutations, i)
    /\ invalidated' = invalidated \cup Invalidates(mutations[i].kind)
    /\ event' = [type |-> "updated", kind |-> mutations[i].kind,
                 id |-> mutations[i].id,
                 toast |-> IF mutations[i].kind = "priority"
                           THEN "Prioridade atualizada" ELSE "none"]
    /\ UNCHANGED <<updates, captureVars, dialogVars, data, draggedEntry, groupBy>>

\* An update in flight fails: mutationFn throws and onError runs.
UpdateError(i) ==
    /\ mutations' = Remove(mutations, i)
    /\ event' = [type |-> "updateError", id |-> mutations[i].id]
    /\ UNCHANGED <<updates, captureVars, dialogVars, entries, invalidated, data,
                   draggedEntry, groupBy>>

\* Another writer of a task (the edit dialog of line 353, the board of
\* another tab) stores a new summary in its metadata.
OtherUpdate(id) ==
    /\ \E k \in DOMAIN entries :
          /\ entries[k].id = id
          /\ IsTask(entries[k])
          /\ entries[k].metadata.summary # Str(v_editado)
    /\ entries' = [k \in DOMAIN entries |->
                      IF entries[k].id = id
                      THEN [entries[k] EXCEPT !.metadata.summary = Str(v_editado)]
                      ELSE entries[k]]
    /\ event' = NoEvent
    /\ UNCHANGED <<updates, captureVars, dialogVars, invalidated, data, draggedEntry,
                   groupBy, mutations>>

NextKanban ==
    \/ queryFn
    \/ queryFnNoData
    \/ \E by \in {"status", "priority"} : setGroupBy(by)
    \/ \E k \in DOMAIN data : handleDragStart(k)
    \/ handleDragEnd
    \/ \E columnId \in ColumnIds(groupBy) : handleDrop(columnId)
    \/ \E k \in DOMAIN data : \E itemIndex \in 1..3 : handleToggleChecklist(k, itemIndex)
    \/ \E i \in DOMAIN mutations : UpdateOk(i)
    \/ \E i \in DOMAIN mutations : UpdateError(i)
    \/ \E id \in {entries[k].id : k \in DOMAIN entries} : OtherUpdate(id)

SpecKanban == InitKanban /\ [][NextKanban]_vars

\* C25: a Kanban priority drop changes only the priority column and
\* metadata.priority of the dropped entry.  When the database applies the
\* update of a priority drop, every other column and every other metadata
\* key of the entry keeps the value stored at that moment, also when another
\* update changed the stored metadata after the entry was fetched or
\* dragged, and no other row changes.
C25_PriorityDropKeepsOtherKeys ==
    [][(event'.type = "updated" /\ event'.kind = "priority") =>
          \A k \in DOMAIN entries :
              entries'[k] =
                  IF entries[k].id = event'.id
                  THEN [entries[k] EXCEPT
                           !.priority = entries'[k].priority,
                           !.metadata.priority = entries'[k].metadata.priority]
                  ELSE entries[k]]_vars

\* The group value of an entry under a grouping, as the claim words it.
GroupValue(entry, by) ==
    IF by = "status"
    THEN entry.status
    ELSE IF Truthy(entry.metadata.priority)
         THEN entry.metadata.priority
         ELSE Str(s_medium)

\* C27: a drop issues an update if and only if an entry is being dragged
\* and its group value (its status under status grouping, its
\* metadata.priority or "medium" under priority grouping) differs from the
\* target column; it then issues exactly one update, for the dragged entry
\* and of the field of the active grouping only.  After every drop and
\* every drag end no entry is dragged.
C27_DropUpdatesIffGroupDiffers ==
    [][/\ event'.type = "drop" =>
             LET columnId == event'.columnId
                 differs  == /\ draggedEntry # NoEntry
                             /\ GroupValue(draggedEntry, groupBy) # Str(columnId)
                 last     == mutations'[Len(mutations')]
             IN /\ differs <=> mutations' # mutations
                /\ differs =>
                      /\ Len(mutations') = Len(mutations) + 1
                      /\ SubSeq(mutations', 1, Len(mutations)) = mutations
                      /\ updates' = updates + 1
                      /\ last.id = draggedEntry.id
                      /\ groupBy = "status" =>
                            last.set = [status |-> Str(columnId)]
                      /\ groupBy = "priority" =>
                            /\ DOMAIN last.set = {"priority", "metadata"}
                            /\ last.set.priority = Str(columnId)
                            /\ last.set.metadata =
                                  [draggedEntry.metadata EXCEPT
                                      !.priority = Str(columnId)]
                /\ draggedEntry' = NoEntry
                /\ entries' = entries
       /\ event'.type = "dragEnd" =>
             /\ draggedEntry' = NoEntry
             /\ mutations' = mutations
             /\ entries' = entries]_vars

\* A priority drop moved the dragged task to another column and its update
\* is in flight.
C27_Witness ==
    /\ event.type = "drop"
    /\ groupBy = "priority"
    /\ draggedEntry = NoEntry
    /\ Len(mutations) = 1
    /\ mutations[1].set.priority = Str(s_urgent)
    /\ mutations[1].set.metadata.summary = Str(v_resumo)

\* item.done of a rendered item, line 549: a string item is not done.
IsDone(item) == item.kind = "object" /\ item.done

\* C28: toggling item i of an entry submits a checklist of the same length
\* in which every other item is unchanged and item i keeps its text with
\* its done flag flipped, a string item becoming { text, done: true }; the
\* entry's own checklist is not written; and toggling an item of any
\* entry the board holds twice, the second time on the refreshed entry,
\* restores its done state.
C28_ToggleFlipsOneItem ==
    /\ [][event'.type = "toggle" =>
             LET entry == data[event'.k]
                 i     == event'.itemIndex
                 old   == entry.checklist
                 sub   == mutations'[Len(mutations')].set.checklist
             IN /\ mutations' =
                      Append(mutations,
                             [kind |-> "checklist", id |-> entry.id,
                              set |-> [checklist |-> sub]])
                /\ Len(sub) = Len(old)
                /\ \A j \in 1..Len(old) : j # i => sub[j] = old[j]
                /\ sub[i] = [kind |-> "object", text |-> old[i].text,
                             done |-> ~IsDone(old[i])]
                /\ data' = data
                /\ entries' = entries]_vars
    /\ [](\A k \in DOMAIN data : \A i \in DOMAIN data[k].checklist :
             IsDone(Toggled(Toggled(data[k].checklist[i])))
                 = IsDone(data[k].checklist[i]))

\* The string item 'leite' was toggled, saved and refreshed, toggled again
\* and saved: it is stored as an object that is not done, and the board
\* has fetched it.
C28_Witness ==
    /\ Len(data) = 1
    /\ Len(data[1].checklist) = 2
    /\ data[1].checklist[1] = [kind |-> "object", text |-> "leite", done |-> FALSE]
    /\ entries[1].checklist = data[1].checklist
    /\ updates = 2

(***************************************************************************)
(* AddGoalDialog.tsx: the form of a goal.  An emoji is written by its      *)
(* name.                                                                   *)
(***************************************************************************)
boardVars == <<entries, invalidated, data, draggedEntry, groupBy, mutations,
               updates>>

\* Largest target the + button is clicked up to.
MaxDialogTarget == 5

t_ler    == <<"l","e","r">>
t_correr == <<"c","o","r","r","e","r">>

\* What the user may type as the title.
Titles == {<<>>, <<" ">>, <<" ", " ">>, <<" ">> \o t_ler}

\* The options of the emoji and unit selectors that are clicked.
emojiOptions == {"books", DefaultEmoji}

unitOptions == {DefaultUnit, "horas"}

\* The goals the parent may hand over for editing: NewGoal & { id }.  The
\* second is a goal the capture stored with the target -1 of its
\* classification (metadata.target || 1, useCapture.ts line 120).
EditingGoals ==
    {[id |-> 1, title |-> t_ler, emoji |-> "books", target |-> 3,
      unit |-> "horas", category |-> Null],
     [id |-> 2, title |-> t_correr, emoji |-> DefaultEmoji, target |-> -1,
      unit |-> DefaultUnit, category |-> Null]}

IsSpace(c) == c \in {" ", "\t", "\n"}

\* Mutant: the title is tested as typed.
trimNothing(s) == s

\* String.prototype.trim
trim(s) ==
    LET kept == {i \in 1..Len(s) : ~IsSpace(s[i])}
    IN IF kept = {}
       THEN <<>>
       ELSE SubSeq(s, CHOOSE i \in kept : \A j \in kept : i <= j,
                      CHOOSE i \in kept : \A j \in kept : j <= i)

InitDialog == Init /\ user = TRUE /\ anonKey = TRUE

\* The form is rendered while the isOpen prop is set (line 60); the parent
\* clears it when onClose is called.  The model is one opening of the
\* dialog.
isOpen == closed = 0

\* onChange of the title input
setTitle(v) ==
    /\ isOpen
    /\ v # title
    /\ title' = v
    /\ event' = NoEvent
    /\ UNCHANGED <<captureVars, boardVars, emoji, target, unit, editingGoal,
                   saved, closed>>

setEmoji(e) ==
    /\ isOpen
    /\ e # emoji
    /\ emoji' = e
    /\ event' = NoEvent
    /\ UNCHANGED <<captureVars, boardVars, title, target, unit, editingGoal,
                   saved, closed>>

setUnit(u) ==
    /\ isOpen
    /\ u # unit
    /\ unit' = u
    /\ event' = NoEvent
    /\ UNCHANGED <<captureVars, boardVars, title, emoji, target, editingGoal,
                   saved, closed>>

\* line 157: setTarget(Math.max(1, target - 1))
decrement ==
    /\ isOpen
    /\ target' = (IF target - 1 > 1 THEN target - 1 ELSE 1)
    /\ event' = [type |-> "decrement"]
    /\ UNCHANGED <<captureVars, boardVars, title, emoji, unit, editingGoal,
                   saved, closed>>

\* line 168: setTarget(target + 1)
increment ==
    /\ isOpen
    /\ target < MaxDialogTarget
    /\ target' = target + 1
    /\ event' = [type |-> "increment"]
    /\ UNCHANGED <<captureVars, boardVars, title, emoji, unit, editingGoal,
                   saved, closed>>

\* The parent hands over another editingGoal (or none) and the effect of
\* lines 34-46 runs.
useEffect(goal) ==
    /\ goal # editingGoal
    /\ editingGoal' = goal
    /\ IF goal # NoGoal
       THEN /\ title' = goal.title
            /\ emoji' = goal.emoji
            /\ target' = goal.target
            /\ unit' = goal.unit
       ELSE /\ title' = <<>>
            /\ emoji' = DefaultEmoji
            /\ target' = DefaultTarget
            /\ unit' = DefaultUnit
    /\ event' = NoEvent
    /\ UNCHANGED <<captureVars, boardVars, saved, closed>>

\* lines 48-56
handleSave ==
    /\ isOpen
    /\ IF trim(title) = <<>>
       THEN UNCHANGED <<title, emoji, target, unit, saved, closed>>
       ELSE /\ saved' = Append(saved, [title |-> title, emoji |-> emoji,
                                       target |-> target, unit |-> unit,
                                       category |-> Null])
            /\ title' = <<>>
            /\ emoji' = DefaultEmoji
            /\ target' = DefaultTarget
            /\ unit' = DefaultUnit
            /\ closed' = closed + 1
    /\ event' = [type |-> "save"]
    /\ UNCHANGED <<captureVars, boardVars, editingGoal>>

\* onClose from the backdrop, the X button or Cancelar (lines 67, 99, 196).
onClose ==
    /\ isOpen
    /\ closed' = closed + 1
    /\ event' = NoEvent
    /\ UNCHANGED <<captureVars, boardVars, title, emoji, target, unit,
                   editingGoal, saved>>

NextDialog ==
    \/ \E v \in Titles : setTitle(v)
    \/ \E e \in emojiOptions : setEmoji(e)
    \/ \E u \in unitOptions : setUnit(u)
    \/ decrement
    \/ increment
    \/ \E goal \in EditingGoals \cup {NoGoal} : useEffect(goal)
    \/ handleSave
    \/ onClose

SpecDialog == InitDialog /\ [][NextDialog]_vars

BlankTitles == {<<>>, <<" ">>, <<" ", " ">>}

\* C29: saving with an empty or whitespace-only title calls neither onSave
\* nor onClose and leaves the form as it is; saving with any other title
\* calls onSave once with the current title, emoji, target and unit and
\* category null, resets the form to title '', emoji 🎯, target 4 and unit
\* 'dias', and calls onClose once.
C29_SaveGuardsBlankTitle ==
    [][event'.type = "save" =>
          IF title \in BlankTitles
          THEN /\ saved' = saved
               /\ closed' = closed
               /\ <<title, emoji, target, unit>>' = <<title, emoji, target, unit>>
          ELSE /\ saved' = Append(saved, [title |-> title, emoji |-> emoji,
                                          target |-> target, unit |-> unit,
                                          category |-> Null])
               /\ <<title, emoji, target, unit>>' = <<<<>>, "target", 4, "dias">>
               /\ closed' = closed + 1]_vars

\* A goal typed with a leading space and raised to target 5 was saved: the
\* form is back at its defaults and the dialog was closed once.
C29_Witness ==
    /\ event.type = "save"
    /\ Len(saved) = 1
    /\ saved[1].title = <<" ">> \o t_ler
    /\ saved[1].target = 5
    /\ saved[1].emoji = "books"
    /\ closed = 1
    /\ <<title, emoji, target, unit>> = <<<<>>, "target", 4, "dias">>

\* C30: the target of the goal dialog is at least 1 in every state that
\* increment and decrement clicks, resets and editing-goal syncs reach, and
\* so is the target of every goal handed to onSave; a decrement at target 1
\* leaves it at 1 and an increment adds exactly 1.
C30_TargetAtLeastOne ==
    /\ [](/\ target >= 1
          /\ \A i \in DOMAIN saved : saved[i].target >= 1)
    /\ [][/\ (event'.type = "decrement" /\ target = 1) => target' = 1
          /\ event'.type = "increment" => target' = target + 1]_vars

====
